---------------------------- MODULE Spec2Model ----------------------------
(***************************************************************************)
(* gitrecon: the paginated collectors of services/github/githubApi.js, the *)
(* bounded batch requester, the methods of the SmartScanner, and a run of  *)
(* runGithubRecon from the rate-limit check to the returned result.        *)
(*                                                                         *)
(* A value returned by ApiUtils.call is a record                           *)
(*     [t, message, error, items]                                          *)
(* t = "null" (null/undefined), "prim" (number, string, boolean),          *)
(* "obj" (a non-array object) or "arr" (an array, whose elements are       *)
(* items); message is the kind of the object's message property ("absent"  *)
(* when it has none) and error the truthiness of its error property.       *)
(***************************************************************************)
EXTENDS Integers, Sequences, FiniteSets, TLC

(* ------------------------------ bounds -------------------------------- *)

\* pages one collector run may request before the model stops following it
MaxPages == 2

\* pages a collector without duplicate check may request in the model
MaxPlainPages == 3

\* repositories the upstream lists for the user of one run of runGithubRecon
MaxRepos == 2

\* URLs handed to parallelRequests in one call
MaxUrls == 3

\* repositories in a list handed to sortReposByPriority or filterRepos
MaxListLen == 3

\* per_page=100 in every listing URL, and the `result.length === 100` test
PageSize == 100

\* length of the short (last) page of the worked example: 100 then 47 items
ShortLen == 47

(* ------------------------- JavaScript values --------------------------- *)

Null == [t |-> "null", message |-> "absent", error |-> FALSE, items |-> <<>>]

Prim == [t |-> "prim", message |-> "absent", error |-> FALSE, items |-> <<>>]

Obj(m, e) == [t |-> "obj", message |-> m, error |-> e, items |-> <<>>]

Arr(s) == [t |-> "arr", message |-> "absent", error |-> FALSE, items |-> s]

\* kinds of the message property of an object: absent, a falsy value, a
\* truthy value that is not a string, or a string (four of them are tested
\* by the collectors, "other" is any other string)
MessageKinds ==
    {"absent", "falsy", "nonstring", "rate limit", "Not Found",
     "Git Repository is empty.", "No commit found", "other"}

\* `'message' in result`: a TypeError unless result is an object
InThrows(result) == result.t \in {"null", "prim"}

HasMessage(result) == result.t = "obj" /\ result.message # "absent"

IsArray(result) == result.t = "arr"

\* `result.message && result.message.includes(..)`: a TypeError when the
\* message is truthy and has no includes method
IncludesThrows(result) == result.message = "nonstring"

IncludesRateLimit(result) == result.message = "rate limit"

\* line 41 / line 92: the duck-typed error test (result is an object here)
IsErrorShaped(result) ==
    HasMessage(result) \/ result.error \/ ~IsArray(result)

(* ----------------------------- upstream -------------------------------- *)

\* the key carried by item i of a page: key base + i, except that the item
\* at dupAt carries dupKey
KeyAt(base, i, dupAt, dupKey) == IF i = dupAt THEN dupKey ELSE base + i

\* first key of the page that follows `page` pages of fresh keys
Base(page) == (page - 1) * PageSize

PageLens == {0, 1, ShortLen, PageSize - 1, PageSize}

\* where a repeated key may sit in a page of length len, and what it is:
\* <<0, 0>> none; key 2 (the second key of page 1) at the first or the last
\* item; the key of the page's second item at its third item
DupChoices(base, len) ==
    {<<0, 0>>}
    \cup {<<d, 2>> : d \in {1, len} \cap 1..len}
    \cup {<<d, base + 2>> : d \in {3} \cap 1..len}

ErrorObjects ==
    {Obj(m, e) : m \in MessageKinds, e \in BOOLEAN}

NonObjects == {Null, Prim}

(* ------------------------------- state --------------------------------- *)

VARIABLES
    call,              \* the collector this run executes
    pc,                \* "running", "returned" or "thrown"
    pageCounter,       \* let pageCounter = 1
    signal,            \* the console.warn / console.info the run ended with
    fetched,           \* page numbers requested from ApiUtils.call, in order
    served,            \* the values ApiUtils.call returned, in order
    repositoriesSeen,  \* getRepositories: new Set()
    repositories,      \* getRepositories: []
    seenCommits,       \* getEmails: new Set()
    newEmails,         \* getEmails: emailsToName, the Map it returns
    commitCounter,     \* getEmails: let commitCounter = 1
    gists,             \* getUserGists: its page, gists, and where it stands
    contributors,      \* getRepoContributors: page, contributors
    repos,             \* getRepositoriesDetailed: page, repos
    starred,           \* getUserStarred: page, starred
    events,            \* getUserEvents: page, events
    smart,             \* runGithubRecon: options.smart
    skipNoreply,       \* runGithubRecon: options.skipNoreply
    repoNames,         \* runGithubRecon: reposToScan.map(repo => repo.name || repo)
    idx,               \* runGithubRecon: i, the index of the repository loop
    at,                \* runGithubRecon: "idle", "start", "profile", "orgs",
                       \* "keys", "listing", "loop", "scanning", "events",
                       \* "readme", "done", "notFound", "rejected"
    started,           \* the repoName arguments of the getEmails calls, in order
    ended,             \* how each of these calls ended, in order: "thrown", or
                       \* what the call that returned had signalled
    emailsToName,      \* runGithubRecon: new Map()
    emailsToRepo,      \* runGithubRecon: new Map()
    emailSources,      \* runGithubRecon: new Map()
    reconResult,       \* runGithubRecon: result (leaked_emails, email_details,
                       \* scan_progress)
    saved,             \* the snapshots handed to FileUtils.saveRealTime, in order
    deep,              \* runGithubRecon: options.deep
    saveFork,          \* runGithubRecon: options.saveFork
    optMaxRepos,       \* runGithubRecon: options.maxRepos
    warned,            \* what the rate-limit check wrote with console.warn
    readmeAt,          \* the READMEs of the deep scan that were asked for
    userInfo,          \* runGithubRecon: userInfo, what getUserProfile returned
    apiCalls,          \* the calls of GitHubApi made by the run, in order
    urls,              \* parallelRequests: urls
    concurrency,       \* parallelRequests: options.concurrency
    onProgress,        \* parallelRequests: whether options.onProgress is given
    batchAt,           \* parallelRequests: "idle", "loop", "awaiting", "returned"
    batchI,            \* parallelRequests: i, the start of the window
    results,           \* parallelRequests: results
    completed,         \* parallelRequests: completed
    batchResults,      \* the values of the promises handed to Promise.all
    issued,            \* the positions in urls of the requests issued so far,
                       \* in the order they were issued
    resolved,          \* the requests resolved so far, in the order they resolved
    progress,          \* the arguments of the calls of onProgress, in order
    scFn,              \* the method of the SmartScanner that is called
    scArgs,            \* its arguments
    scRepos,           \* the array of repositories the caller handed over
    scOut,             \* the value returned
    scDone,            \* whether the call has returned
    cache,             \* SmartScanner: this.cache, key to {data, expiry}
    now,               \* Date.now(), in milliseconds
    cacheLog           \* the calls of the cache methods and what they returned

collVars ==
    <<call, pc, pageCounter, signal, fetched, served, repositoriesSeen,
      repositories, seenCommits, newEmails, commitCounter>>

plainVars == <<gists, contributors, repos, starred, events>>

loopVars ==
    <<smart, skipNoreply, repoNames, idx, at, started, ended, emailsToName,
      emailsToRepo, emailSources, reconResult, saved>>

headVars == <<deep, saveFork, optMaxRepos, warned, readmeAt, userInfo>>

reconVars == <<loopVars, headVars, apiCalls>>

batchVars ==
    <<urls, concurrency, onProgress, batchAt, batchI, results, completed,
      batchResults, issued, resolved, progress>>

scanVars == <<scFn, scArgs, scRepos, scOut, scDone, cache, now, cacheLog>>

vars == <<collVars, plainVars, reconVars, batchVars, scanVars>>

(* --------------------------- getRepositories --------------------------- *)

\* settings.Repository(name, fork)
Repository(name, fork) == [name |-> name, fork |-> fork]

RepoItem(k) == [name |-> k, fork |-> (k % 3 = 0)]

RepoPages(page) ==
    UNION {{Arr([i \in 1..len |-> RepoItem(KeyAt(Base(page), i, d[1], d[2]))]) :
                d \in DupChoices(Base(page), len)} : len \in PageLens}

\* every value the model lets ApiUtils.call return for a page of a listing
RepoResults(page) == RepoPages(page) \cup ErrorObjects \cup NonObjects

\* mutant of RepoSeen: the seen set is never consulted
RepoSeenNever(seen, repoName) == FALSE

\* line 59: repositoriesSeen.has(repoName)
RepoSeen(seen, repoName) == repoName \in seen

\* mutant of RepoBody: a repeated name is skipped (`continue`), the loop and
\* the walk go on
RepoBodySkipsRepeat(st, repository) ==
    IF st.done \/ repository.name \in st.seen THEN st
    ELSE [st EXCEPT
            !.repos = Append(@, Repository(repository.name, repository.fork)),
            !.seen = @ \cup {repository.name}]

\* lines 58-65: the body of the for loop; st.done is set by `break`
RepoBody(st, repository) ==
    IF st.done THEN st
    ELSE IF RepoSeen(st.seen, repository.name)
         THEN [st EXCEPT !.continueLoop = FALSE, !.done = TRUE]
         ELSE [st EXCEPT
                 !.repos = Append(@, Repository(repository.name, repository.fork)),
                 !.seen = @ \cup {repository.name}]

\* lines 57-66: for (const repository of result), items lo..hi in array
\* order; nothing after a `break` is looked at
RECURSIVE RepoLoop(_, _, _, _)
RepoLoop(items, lo, hi, st) ==
    IF lo > hi THEN st
    ELSE IF lo = hi THEN RepoBody(st, items[lo])
    ELSE LET mid == (lo + hi) \div 2
             half == RepoLoop(items, lo, mid, st)
         IN  IF half.done THEN half ELSE RepoLoop(items, mid + 1, hi, half)

\* mutant of ShouldAdvance: a full page leads to the next one, whether or
\* not the loop over its items was left at a repeated key
ShouldAdvanceOnFull(continueLoop, result) ==
    IsArray(result) /\ Len(result.items) = PageSize

\* mutant of ShouldAdvance: any non-empty page leads to the next one
ShouldAdvanceNonEmpty(continueLoop, result) ==
    continueLoop /\ IsArray(result) /\ Len(result.items) > 0

\* line 72 / line 155: continueLoop && Array.isArray(result) && result.length === 100
ShouldAdvance(continueLoop, result) ==
    continueLoop /\ IsArray(result) /\ Len(result.items) = PageSize

\* lines 42-52: which warning the error branch of getRepositories prints
RepoSignal(result) ==
    IF IncludesRateLimit(result) THEN "rate_limit"
    ELSE IF result.message = "Not Found" THEN "not_found"
    ELSE "error"

\* lines 36-77: one turn of the while loop of getRepositories, the answer of
\* ApiUtils.call being one of `upstream`
GetRepositoriesTurn(upstream) ==
    /\ call = "getRepositories"
    /\ pc = "running"
    /\ pageCounter <= MaxPages
    /\ \E result \in upstream :
        /\ fetched' = Append(fetched, pageCounter)
        /\ served' = Append(served, result)
        /\ IF InThrows(result) \/ (IsErrorShaped(result) /\ IncludesThrows(result))
           THEN /\ pc' = "thrown"
                /\ UNCHANGED <<pageCounter, signal, repositoriesSeen, repositories>>
           ELSE IF IsErrorShaped(result)
           THEN /\ pc' = "returned"
                /\ signal' = RepoSignal(result)
                /\ UNCHANGED <<pageCounter, repositoriesSeen, repositories>>
           ELSE LET l == RepoLoop(result.items, 1, Len(result.items),
                                 [seen |-> repositoriesSeen, repos |-> repositories,
                                  continueLoop |-> TRUE, done |-> FALSE])
                IN  /\ repositoriesSeen' = l.seen
                    /\ repositories' = l.repos
                    /\ IF ShouldAdvance(l.continueLoop, result)
                       THEN pageCounter' = pageCounter + 1 /\ pc' = "running"
                       ELSE pageCounter' = pageCounter /\ pc' = "returned"
                    /\ UNCHANGED signal
    /\ UNCHANGED <<call, seenCommits, newEmails, commitCounter, plainVars, batchVars, scanVars,
                   reconVars>>

\* a call of getRepositories
GetRepositoriesPage ==
    /\ call = "getRepositories"
    /\ GetRepositoriesTurn(RepoResults(pageCounter))

(* ------------------------------ getEmails ------------------------------ *)

\* an e-mail address is the sequence of its pieces: "@" or a word without
\* "@"; the empty sequence is the empty string
EPersonal == <<"alice", "@", "gmail.com">>
EWork == <<"alice", "@", "acme-corp.io">>
ENoreply == <<"1+alice", "@", "users.noreply.github.com">>
EMalformed == <<"alice.at.home">>
EEmpty == <<>>

\* the login the scan is run for, and the logins commits carry;
\* "undefined" is an author object without a login property
username == "Alice"

\* String.prototype.toLowerCase on the logins of the model
ToLowerCase(s) ==
    CASE s = "Alice" -> "alice"
      [] s = "ALICE" -> "alice"
      [] OTHER -> s

Person(name, email) == [ok |-> TRUE, name |-> name, email |-> email]

\* commit.commit.author / commit.commit.committer is undefined
NoPerson == [ok |-> FALSE, name |-> "", email |-> EEmpty]

\* a commit of the listing: author is "null" or the login of the platform
\* account; cauthor and ccommitter are commit.commit.author / .committer
Commit(sha, author, cauthor, ccommitter) ==
    [sha |-> sha, author |-> author, cauthor |-> cauthor, ccommitter |-> ccommitter]

CommitKinds ==
    {"target", "targetCase", "other", "nullAuthor", "web",
     "noLogin", "noCommitAuthor", "noCommitter", "otherBare"}

CommitOfKind(kind, sha) ==
    CASE kind = "target" ->
            Commit(sha, "Alice", Person("Alice A", EPersonal), Person("Alice A", EPersonal))
      [] kind = "targetCase" ->
            Commit(sha, "alice", Person("A. Liddell", EWork), Person("Alice A", EPersonal))
      [] kind = "web" ->
            Commit(sha, "ALICE", Person("Alice A", EMalformed), Person("GitHub", ENoreply))
      [] kind = "other" ->
            Commit(sha, "bob", Person("Bob B", <<"bob", "@", "gmail.com">>),
                   Person("Bob B", <<"bob", "@", "gmail.com">>))
      [] kind = "nullAuthor" ->
            Commit(sha, "null", Person("Alice A", EWork), Person("Alice A", EEmpty))
      [] kind = "noLogin" ->
            Commit(sha, "undefined", Person("Alice A", EPersonal), Person("Alice A", EPersonal))
      [] kind = "noCommitAuthor" ->
            Commit(sha, "Alice", NoPerson, Person("Alice A", EPersonal))
      [] kind = "noCommitter" ->
            Commit(sha, "alice", Person("Alice A", EPersonal), NoPerson)
      [] kind = "otherBare" ->
            Commit(sha, "bob", NoPerson, NoPerson)

\* the kinds of the commits of a page: the second commit is of kind `mark`,
\* the others of kind `rest`
PageShapes ==
    {<<mark, "target">> : mark \in CommitKinds} \cup {<<"target", "other">>}

CommitPages(page) ==
    UNION {{Arr([i \in 1..len |->
                    CommitOfKind(IF i = 2 THEN sh[1] ELSE sh[2],
                                 KeyAt(Base(page), i, d[1], d[2]))]) :
                d \in DupChoices(Base(page), len), sh \in PageShapes} :
           len \in PageLens}

CommitResults(page) == CommitPages(page) \cup ErrorObjects \cup NonObjects

\* a Map from e-mail to Set of names, in insertion order
MapHas(m, k) == \E j \in 1..Len(m) : m[j].key = k

MapGet(m, k) == m[CHOOSE j \in 1..Len(m) : m[j].key = k].value

\* mutant of MapAdd: the Set of the key is replaced by one holding the name
MapAddReplace(m, k, name) ==
    IF MapHas(m, k)
    THEN [j \in 1..Len(m) |->
            IF m[j].key = k THEN [m[j] EXCEPT !.value = {name}] ELSE m[j]]
    ELSE Append(m, [key |-> k, value |-> {name}])

\* if (!m.has(k)) m.set(k, new Set()); m.get(k).add(name)
MapAdd(m, k, name) ==
    IF MapHas(m, k)
    THEN [j \in 1..Len(m) |->
            IF m[j].key = k THEN [m[j] EXCEPT !.value = @ \cup {name}] ELSE m[j]]
    ELSE Append(m, [key |-> k, value |-> {name}])

MapKeys(m) == {m[j].key : j \in 1..Len(m)}

\* mutant of CommitSeen: the seen set is never consulted
CommitSeenNever(seen, sha) == FALSE

\* line 117: seenCommits.has(sha)
CommitSeen(seen, sha) == sha \in seen

\* line 126: !commit.author
NoAuthor(commit) == commit.author = "null"

\* line 130: user.toLowerCase() throws when the author has no login
LoginThrows(commit) == commit.author = "undefined"

\* mutant of IsTarget: the logins are compared as they are written
IsTargetExact(commit) == commit.author = username

\* line 130: user.toLowerCase() === username.toLowerCase()
IsTarget(commit) == ToLowerCase(commit.author) = ToLowerCase(username)

\* lines 131-135: reading .name of an undefined author or committer throws
PersonThrows(commit) == ~commit.cauthor.ok \/ ~commit.ccommitter.ok

\* lines 136-147: record the author and the committer e-mail, when non-empty
RecordEmails(emails, commit) ==
    LET a == IF commit.cauthor.email # EEmpty
             THEN MapAdd(emails, commit.cauthor.email, commit.cauthor.name)
             ELSE emails
    IN  IF commit.ccommitter.email # EEmpty
        THEN MapAdd(a, commit.ccommitter.email, commit.ccommitter.name)
        ELSE a

\* mutant of CommitBody: a commit without author is skipped before its sha
\* is looked at
CommitBodySkipsFirst(st, commit) ==
    IF st.done \/ commit.author = "null" THEN st
    ELSE IF commit.sha \in st.seen
         THEN [st EXCEPT !.continueLoop = FALSE, !.done = TRUE]
    ELSE LET st1 == [st EXCEPT !.seen = @ \cup {commit.sha}, !.counter = @ + 1]
         IN  IF commit.author = "undefined"
             THEN [st1 EXCEPT !.thrown = TRUE, !.done = TRUE]
             ELSE IF ToLowerCase(commit.author) # ToLowerCase(username) THEN st1
             ELSE IF ~commit.cauthor.ok \/ ~commit.ccommitter.ok
             THEN [st1 EXCEPT !.thrown = TRUE, !.done = TRUE]
             ELSE [st1 EXCEPT !.emails = RecordEmails(@, commit)]

\* lines 116-148: the body of the for loop; st.done is set by `break` and
\* by a TypeError, which also sets st.thrown
CommitBody(st, commit) ==
    IF st.done THEN st
    ELSE IF CommitSeen(st.seen, commit.sha)
         THEN [st EXCEPT !.continueLoop = FALSE, !.done = TRUE]
    ELSE LET st1 == [st EXCEPT !.seen = @ \cup {commit.sha}, !.counter = @ + 1]
         IN  IF NoAuthor(commit) THEN st1
             ELSE IF LoginThrows(commit)
             THEN [st1 EXCEPT !.thrown = TRUE, !.done = TRUE]
             ELSE IF ~IsTarget(commit) THEN st1
             ELSE IF PersonThrows(commit)
             THEN [st1 EXCEPT !.thrown = TRUE, !.done = TRUE]
             ELSE [st1 EXCEPT !.emails = RecordEmails(@, commit)]

\* lines 115-149: for (const commit of result), items lo..hi in array
\* order; nothing after a `break` or a TypeError is looked at
RECURSIVE CommitLoop(_, _, _, _)
CommitLoop(items, lo, hi, st) ==
    IF lo > hi THEN st
    ELSE IF lo = hi THEN CommitBody(st, items[lo])
    ELSE LET mid == (lo + hi) \div 2
             half == CommitLoop(items, lo, mid, st)
         IN  IF half.done THEN half ELSE CommitLoop(items, mid + 1, hi, half)

\* lines 93-110: which message the error branch of getEmails prints
EmailSignal(result) ==
    IF result.message \in {"Git Repository is empty.", "No commit found"} THEN "empty"
    ELSE IF IncludesRateLimit(result) THEN "rate_limit"
    ELSE IF result.message = "Not Found" THEN "not_found"
    ELSE "error"

\* line 98 is reached, and throws, unless line 93 returned first
EmailErrorThrows(result) == IncludesThrows(result)

\* lines 89-160: one turn of the while loop of getEmails, served one of
\* `upstream`
GetEmailsTurn(upstream) ==
    /\ call = "getEmails"
    /\ pc = "running"
    /\ pageCounter <= MaxPages
    /\ \E result \in upstream :
        /\ fetched' = Append(fetched, pageCounter)
        /\ served' = Append(served, result)
        /\ IF InThrows(result) \/ (IsErrorShaped(result) /\ EmailErrorThrows(result))
           THEN /\ pc' = "thrown"
                /\ UNCHANGED <<pageCounter, signal, seenCommits, newEmails, commitCounter>>
           ELSE IF IsErrorShaped(result)
           THEN /\ pc' = "returned"
                /\ signal' = EmailSignal(result)
                /\ UNCHANGED <<pageCounter, seenCommits, newEmails, commitCounter>>
           ELSE LET l == CommitLoop(result.items, 1, Len(result.items),
                                   [seen |-> seenCommits, emails |-> newEmails,
                                    counter |-> commitCounter, continueLoop |-> TRUE,
                                    done |-> FALSE, thrown |-> FALSE])
                IN  /\ seenCommits' = l.seen
                    /\ newEmails' = l.emails
                    /\ commitCounter' = l.counter
                    /\ IF l.thrown
                       THEN pageCounter' = pageCounter /\ pc' = "thrown"
                       ELSE IF ShouldAdvance(l.continueLoop, result)
                       THEN pageCounter' = pageCounter + 1 /\ pc' = "running"
                       ELSE pageCounter' = pageCounter /\ pc' = "returned"
                    /\ UNCHANGED signal
    /\ UNCHANGED <<call, repositoriesSeen, repositories, plainVars, batchVars, scanVars>>

\* a call of getEmails on its own
GetEmailsPage ==
    /\ at = "idle"
    /\ GetEmailsTurn(CommitResults(pageCounter))
    /\ UNCHANGED reconVars

(* ------------------ the collectors without a seen set ------------------ *)

\* a run of one of them: the next page, the list built so far (gists,
\* contributors, repos, starred, events), the pages requested, and whether
\* the function has returned
PlainStart == [page |-> 1, items |-> <<>>, asked |-> <<>>, pc |-> "running"]

\* mutant of WhileTurn: the walk also ends after a page of exactly 100 items
WhileTurnStopsOnFull(run, items, result) ==
    LET r == [run EXCEPT !.asked = Append(@, run.page)]
    IN  IF ~IsArray(result) \/ Len(result.items) = 0
        THEN [r EXCEPT !.pc = "returned"]
        ELSE IF Len(result.items) <= PageSize
        THEN [r EXCEPT !.items = @ \o items, !.pc = "returned"]
        ELSE [r EXCEPT !.items = @ \o items, !.page = @ + 1]

\* lines 192-201, 236-245, 323-352: one turn of `while (true)`; items is
\* what the turn pushes for the page
WhileTurn(run, items, result) ==
    LET r == [run EXCEPT !.asked = Append(@, run.page)]
    IN  IF ~IsArray(result) \/ Len(result.items) = 0
        THEN [r EXCEPT !.pc = "returned"]
        ELSE IF Len(result.items) < PageSize
        THEN [r EXCEPT !.items = @ \o items, !.pc = "returned"]
        ELSE [r EXCEPT !.items = @ \o items, !.page = @ + 1]

\* getUserStarred: const { maxPages = 2 } = options
StarredMaxPages == 2

\* getUserEvents: const { maxPages = 3 } = options
EventsMaxPages == 3

\* lines 275-282, 372-379: one turn of `for (page = 1; page <= maxPages; page++)`
ForTurn(run, result, maxPages) ==
    LET r == [run EXCEPT !.asked = Append(@, run.page)]
    IN  IF ~IsArray(result) \/ Len(result.items) = 0
        THEN [r EXCEPT !.pc = "returned"]
        ELSE IF Len(result.items) < PageSize
        THEN [r EXCEPT !.items = @ \o result.items, !.pc = "returned"]
        ELSE [r EXCEPT !.items = @ \o result.items, !.page = @ + 1,
                       !.pc = IF run.page + 1 <= maxPages THEN "running" ELSE "returned"]

\* lines 330-348: result.map(repo => ({name: repo.name, .., fork: repo.fork, ..}))
Detailed(result) ==
    [i \in 1..Len(result.items) |->
        [name |-> result.items[i].name, fork |-> result.items[i].fork]]

\* the value ApiUtils.call returns for page p of the listing: the one it
\* returned to an earlier collector of this comparison, or a new one
Listing(p) == IF p <= Len(served) THEN {served[p]} ELSE RepoResults(p)

Serve(p, result) ==
    served' = IF p <= Len(served) THEN served ELSE Append(served, result)

\* the run has returned or thrown, or the model follows it no further
Over(run) == run.pc # "running" \/ run.page > MaxPlainPages

RepositoriesOver == pc # "running" \/ pageCounter > MaxPages

\* lines 188-204
GetUserGistsPage ==
    /\ RepositoriesOver /\ ~Over(gists)
    /\ \E result \in Listing(gists.page) :
        /\ Serve(gists.page, result)
        /\ gists' = WhileTurn(gists, result.items, result)
    /\ UNCHANGED <<call, pc, pageCounter, signal, fetched, repositoriesSeen,
                   repositories, seenCommits, newEmails, commitCounter,
                   contributors, repos, starred, events, reconVars, batchVars, scanVars>>

\* lines 231-248
GetRepoContributorsPage ==
    /\ Over(gists) /\ ~Over(contributors)
    /\ \E result \in Listing(contributors.page) :
        /\ Serve(contributors.page, result)
        /\ contributors' = WhileTurn(contributors, result.items, result)
    /\ UNCHANGED <<call, pc, pageCounter, signal, fetched, repositoriesSeen,
                   repositories, seenCommits, newEmails, commitCounter,
                   gists, repos, starred, events, reconVars, batchVars, scanVars>>

\* lines 318-355
GetRepositoriesDetailedPage ==
    /\ Over(contributors) /\ ~Over(repos)
    /\ \E result \in Listing(repos.page) :
        /\ Serve(repos.page, result)
        /\ repos' = WhileTurn(repos, Detailed(result), result)
    /\ UNCHANGED <<call, pc, pageCounter, signal, fetched, repositoriesSeen,
                   repositories, seenCommits, newEmails, commitCounter,
                   gists, contributors, starred, events, reconVars, batchVars, scanVars>>

\* lines 368-382
GetUserStarredPage ==
    /\ Over(repos) /\ ~Over(starred)
    /\ \E result \in Listing(starred.page) :
        /\ Serve(starred.page, result)
        /\ starred' = ForTurn(starred, result, StarredMaxPages)
    /\ UNCHANGED <<call, pc, pageCounter, signal, fetched, repositoriesSeen,
                   repositories, seenCommits, newEmails, commitCounter,
                   gists, contributors, repos, events, reconVars, batchVars, scanVars>>

\* lines 271-285
GetUserEventsPage ==
    /\ Over(starred) /\ ~Over(events)
    /\ \E result \in Listing(events.page) :
        /\ Serve(events.page, result)
        /\ events' = ForTurn(events, result, EventsMaxPages)
    /\ UNCHANGED <<call, pc, pageCounter, signal, fetched, repositoriesSeen,
                   repositories, seenCommits, newEmails, commitCounter,
                   gists, contributors, repos, starred, reconVars, batchVars, scanVars>>

PlainInit ==
    /\ gists = PlainStart
    /\ contributors = PlainStart
    /\ repos = PlainStart
    /\ starred = PlainStart
    /\ events = PlainStart

(* ----------------------- SmartScanner.classifyEmail ----------------------- *)

\* String.prototype.toLowerCase on the words e-mail addresses are made of
LowerWord(w) ==
    CASE w = "NoReply" -> "noreply"
      [] w = "Gmail.com" -> "gmail.com"
      [] w = "Users.NoReply.GitHub.com" -> "users.noreply.github.com"
      [] w = "Mailinator.com" -> "mailinator.com"
      [] w = "User" -> "user"
      [] OTHER -> w

ToLower(s) == [j \in 1..Len(s) |-> LowerWord(s[j])]

\* the words that end with the literal `suffix`
WordEndsWith(w, suffix) ==
    CASE suffix = "noreply" -> w \in {"noreply", "bot-noreply"}
      [] suffix = "no-reply" -> w \in {"no-reply"}
      [] suffix = "donotreply" -> w \in {"donotreply"}
      [] suffix = "notifications" -> w \in {"notifications"}
      [] OTHER -> FALSE

\* the words that start with the literal `prefix`
WordStartsWith(w, prefix) ==
    CASE prefix = "github.com" -> w \in {"github.com", "github.com.evil.example"}
      [] OTHER -> FALSE

\* email.split('@'): the texts between the "@" signs
RECURSIVE Split(_)
Split(s) ==
    IF \A j \in 1..Len(s) : s[j] # "@"
    THEN <<s>>
    ELSE LET at1 == CHOOSE j \in 1..Len(s) :
                        s[j] = "@" /\ \A k \in 1..(j - 1) : s[k] # "@"
         IN  <<SubSeq(s, 1, at1 - 1)>> \o Split(SubSeq(s, at1 + 1, Len(s)))

\* /<suffix>@/i on an address of the form local@domain
EndsLocal(parts, suffix) ==
    /\ Len(parts[1]) > 0
    /\ WordEndsWith(LowerWord(parts[1][Len(parts[1])]), suffix)

\* lines 14-21: one of the noreply patterns matches local@domain
MatchesNoreply(parts) ==
    \/ EndsLocal(parts, "noreply")
    \/ EndsLocal(parts, "no-reply")
    \/ EndsLocal(parts, "donotreply")
    \/ Len(parts[1]) > 0 /\ ToLower(parts[2]) = <<"users.noreply.github.com">>
    \/ Len(parts[1]) > 0 /\ ToLower(parts[2]) = <<"users.noreply.gitlab.com">>
    \/ /\ EndsLocal(parts, "notifications")
       /\ Len(parts[2]) > 0
       /\ WordStartsWith(LowerWord(parts[2][1]), "github.com")

\* lines 23-28
disposable ==
    {<<"tempmail.org">>, <<"guerrillamail.com">>, <<"mailinator.com">>,
     <<"10minutemail.com">>, <<"throwaway.email">>, <<"temp-mail.org">>,
     <<"fakeinbox.com">>, <<"getnada.com">>, <<"maildrop.cc">>,
     <<"dispostable.com">>, <<"yopmail.com">>, <<"trashmail.com">>,
     <<"sharklasers.com">>, <<"guerrillamail.info">>, <<"grr.la">>}

\* lines 179-180
commonPersonalDomains ==
    {<<"gmail.com">>, <<"yahoo.com">>, <<"hotmail.com">>, <<"outlook.com">>,
     <<"live.com">>, <<"icloud.com">>, <<"protonmail.com">>, <<"mail.com">>}

\* domain: null
NoDomain == <<"null">>

\* mutant of IsMalformed: only an address without "@" is malformed
IsMalformedWithoutAt(parts) == Len(parts) < 2

\* line 156: parts.length !== 2
IsMalformed(parts) == Len(parts) # 2

\* mutant of classifyEmail: the disposable domains are tested first
classifyEmailDisposableFirst(email) ==
    LET parts == Split(email)
        start == [email |-> email, isValid |-> TRUE, isNoreply |-> FALSE,
                  isDisposable |-> FALSE, domain |-> NoDomain,
                  classification |-> "personal"]
    IN  IF IsMalformed(parts)
        THEN [start EXCEPT !.isValid = FALSE]
        ELSE LET domain == ToLower(parts[2])
                 r == [start EXCEPT !.domain = domain]
             IN  IF domain \in disposable
                 THEN [r EXCEPT !.isDisposable = TRUE,
                                !.classification = "disposable"]
                 ELSE IF MatchesNoreply(parts)
                 THEN [r EXCEPT !.isNoreply = TRUE, !.classification = "noreply"]
                 ELSE IF domain \notin commonPersonalDomains
                 THEN [r EXCEPT !.classification = "work"]
                 ELSE r

\* lines 144-186
classifyEmail(email) ==
    LET parts == Split(email)
        start == [email |-> email, isValid |-> TRUE, isNoreply |-> FALSE,
                  isDisposable |-> FALSE, domain |-> NoDomain,
                  classification |-> "personal"]
    IN  IF IsMalformed(parts)
        THEN [start EXCEPT !.isValid = FALSE]
        ELSE LET domain == ToLower(parts[2])
                 r == [start EXCEPT !.domain = domain]
             IN  IF MatchesNoreply(parts)
                 THEN [r EXCEPT !.isNoreply = TRUE, !.classification = "noreply"]
                 ELSE IF domain \in disposable
                 THEN [r EXCEPT !.isDisposable = TRUE,
                                !.classification = "disposable"]
                 ELSE IF domain \notin commonPersonalDomains
                 THEN [r EXCEPT !.classification = "work"]
                 ELSE r

(* ---------------- runGithubRecon: the repository loop ---------------- *)

\* mutant of MapAddAll: the key is set anew at every call
MapAddAllAnew(m, k, values) == Append(m, [key |-> k, value |-> values])

\* if (!m.has(k)) m.set(k, new Set()); then every member of `values` is added
MapAddAll(m, k, values) ==
    IF MapHas(m, k)
    THEN [j \in 1..Len(m) |->
            IF m[j].key = k THEN [m[j] EXCEPT !.value = @ \cup values] ELSE m[j]]
    ELSE Append(m, [key |-> k, value |-> values])

\* lines 9-17: the names of every entry of `source` are added to `target`
RECURSIVE mergeEmailMaps(_, _)
mergeEmailMaps(target, source) ==
    IF source = <<>>
    THEN target
    ELSE mergeEmailMaps(MapAddAll(target, Head(source).key, Head(source).value),
                        Tail(source))

\* mutant of FilterNoreply: the filter is never on
FilterNoreplyOff == FALSE

\* lines 225, 257, 419: skipNoreply || smart
FilterNoreply == skipNoreply \/ smart

\* lines 224-250: one entry of the Map getEmails returned
MergeEntry(agg, entry, repo) ==
    IF FilterNoreply /\ classifyEmail(entry.key).isNoreply
    THEN agg
    ELSE [emailsToRepo |-> MapAdd(agg.emailsToRepo, entry.key, repo),
          emailSources |-> MapAdd(agg.emailSources, entry.key, "commit"),
          emailsToName |-> MapAddAll(agg.emailsToName, entry.key, entry.value),
          newEmailsCount |-> IF MapHas(agg.emailsToName, entry.key)
                             THEN agg.newEmailsCount
                             ELSE agg.newEmailsCount + 1]

\* lines 223-251: the entries in the order of the Map
RECURSIVE MergeEmails(_, _, _, _)
MergeEmails(agg, emails, j, repo) ==
    IF j > Len(emails)
    THEN agg
    ELSE MergeEmails(MergeEntry(agg, emails[j], repo), emails, j + 1, repo)

\* lines 487-495: one element of result.email_details
EmailDetail(entry, toRepo, sources) ==
    LET c == classifyEmail(entry.key)
    IN  [email |-> entry.key,
         names |-> entry.value,
         classification |-> c.classification,
         domain |-> c.domain,
         is_disposable |-> c.isDisposable,
         sources |-> IF MapHas(sources, entry.key)
                     THEN MapGet(sources, entry.key) ELSE {},
         repositories |-> IF MapHas(toRepo, entry.key)
                          THEN MapGet(toRepo, entry.key) ELSE {}]

\* lines 479-484: the entries of emailsToName that are published
RECURSIVE Published(_, _)
Published(toName, filterNoreply) ==
    IF toName = <<>>
    THEN <<>>
    ELSE LET rest == Published(Tail(toName), filterNoreply)
         IN  IF filterNoreply /\ classifyEmail(Head(toName).key).isNoreply
             THEN rest
             ELSE <<Head(toName)>> \o rest

\* mutant of updateResultEmails: email_details is projected from the map as it
\* was before its last address was set
updateResultEmailsTorn(res, toName, toRepo, sources, filterNoreply) ==
    LET kept == Published(toName, filterNoreply)
        before == IF kept = <<>> THEN kept ELSE SubSeq(kept, 1, Len(kept) - 1)
    IN  [res EXCEPT
            !.leaked_emails = [j \in 1..Len(kept) |-> kept[j].key],
            !.email_details =
                [j \in 1..Len(before) |-> EmailDetail(before[j], toRepo, sources)]]

\* lines 475-500
updateResultEmails(res, toName, toRepo, sources, filterNoreply) ==
    LET kept == Published(toName, filterNoreply)
    IN  [res EXCEPT
            !.leaked_emails = [j \in 1..Len(kept) |-> kept[j].key],
            !.email_details =
                [j \in 1..Len(kept) |-> EmailDetail(kept[j], toRepo, sources)]]

\* what the upstream serves getEmails during a scan: an error object, a
\* value that is no object, or a short page whose last commit is of `kind`
ReconKinds == {"target", "targetCase", "web", "other", "noLogin"}

ReconLens == {0, 2}

ReconResults(page) ==
    {Arr([j \in 1..len |->
            CommitOfKind(IF j = len THEN kind ELSE "target", Base(page) + j)]) :
        len \in ReconLens, kind \in ReconKinds}
    \cup {Obj("rate limit", FALSE), Obj("Not Found", FALSE), Obj("other", TRUE),
          Obj("Git Repository is empty.", FALSE), Null}

NoProgress == [text |-> "undefined", done |-> 0, total |-> 0]

\* a call of a method of GitHubApi: its name, the repository and the page it
\* is for (0 where the method takes none)
ApiCall(fn, repo, page) == [fn |-> fn, repo |-> repo, page |-> page]

\* line 336: the READMEs of the first five repositories are read
TopRepos == 5

\* line 336: repoNames.slice(0, 5)
ReadmeRepos(names) ==
    IF Len(names) > TopRepos THEN SubSeq(names, 1, TopRepos) ELSE names

\* line 258: `${i + 1}/${totalRepos} repositories scanned`
Progress(done, total) == [text |-> "repositories scanned", done |-> done, total |-> total]

\* line 452
Completed == [text |-> "completed", done |-> 0, total |-> 0]

\* no run of runGithubRecon
ReconIdle ==
    /\ smart = FALSE
    /\ skipNoreply = FALSE
    /\ repoNames = <<>>
    /\ idx = 0
    /\ at = "idle"
    /\ started = <<>>
    /\ ended = <<>>
    /\ emailsToName = <<>>
    /\ emailsToRepo = <<>>
    /\ emailSources = <<>>
    /\ reconResult = [leaked_emails |-> <<>>, email_details |-> <<>>,
                      scan_progress |-> NoProgress]
    /\ saved = <<>>
    /\ deep = FALSE
    /\ saveFork = FALSE
    /\ optMaxRepos = 0
    /\ warned = <<>>
    /\ readmeAt = 0
    /\ userInfo = Null
    /\ apiCalls = <<>>

\* lines 213-218: the loop test, and the call of getEmails(username, repo)
ScanRepository ==
    /\ at = "loop"
    /\ idx < Len(repoNames)
    /\ at' = "scanning"
    /\ started' = Append(started, repoNames[idx + 1])
    /\ pc' = "running"
    /\ pageCounter' = 1
    /\ signal' = "none"
    /\ fetched' = <<>>
    /\ served' = <<>>
    /\ seenCommits' = {}
    /\ newEmails' = <<>>
    /\ commitCounter' = 1
    /\ UNCHANGED <<call, repositoriesSeen, repositories, plainVars, batchVars, scanVars, smart,
                   skipNoreply, repoNames, idx, ended, emailsToName,
                   emailsToRepo, emailSources, reconResult, saved, headVars,
                   apiCalls>>

\* the turns of the getEmails call of the repository being scanned
ScanGetEmailsPage ==
    /\ at = "scanning"
    /\ GetEmailsTurn(ReconResults(pageCounter))
    /\ apiCalls' = Append(apiCalls, ApiCall("getEmails", repoNames[idx + 1], pageCounter))
    /\ UNCHANGED <<loopVars, headVars>>

\* lines 219-260: getEmails returned; its Map is merged, and the result is
\* updated and saved when the Map had a new address
MergeNewEmails ==
    /\ at = "scanning"
    /\ pc = "returned"
    /\ LET repo == repoNames[idx + 1]
           agg == MergeEmails([emailsToName |-> emailsToName,
                               emailsToRepo |-> emailsToRepo,
                               emailSources |-> emailSources,
                               newEmailsCount |-> 0],
                              newEmails, 1, repo)
           updated == [updateResultEmails(reconResult, agg.emailsToName,
                                          agg.emailsToRepo, agg.emailSources,
                                          FilterNoreply)
                          EXCEPT !.scan_progress = Progress(idx + 1, Len(repoNames))]
       IN  /\ emailsToName' = agg.emailsToName
           /\ emailsToRepo' = agg.emailsToRepo
           /\ emailSources' = agg.emailSources
           /\ IF agg.newEmailsCount > 0
              THEN reconResult' = updated /\ saved' = Append(saved, updated)
              ELSE UNCHANGED <<reconResult, saved>>
    /\ idx' = idx + 1
    /\ at' = "loop"
    /\ ended' = Append(ended, signal)
    /\ UNCHANGED <<collVars, plainVars, batchVars, scanVars, smart, skipNoreply, repoNames, started,
                   headVars, apiCalls>>

\* mutant of CatchScanError: the exception leaves the loop
CatchScanErrorLeaves ==
    /\ at = "scanning"
    /\ pc = "thrown"
    /\ at' = "done"
    /\ ended' = Append(ended, "thrown")
    /\ UNCHANGED <<collVars, plainVars, batchVars, scanVars, smart, skipNoreply, repoNames, idx,
                   started, emailsToName, emailsToRepo, emailSources,
                   reconResult, saved, headVars, apiCalls>>

\* lines 261-266: getEmails threw; the loop goes on
CatchScanError ==
    /\ at = "scanning"
    /\ pc = "thrown"
    /\ idx' = idx + 1
    /\ at' = "loop"
    /\ ended' = Append(ended, "thrown")
    /\ UNCHANGED <<collVars, plainVars, batchVars, scanVars, smart, skipNoreply, repoNames, started,
                   emailsToName, emailsToRepo, emailSources, reconResult, saved,
                   headVars, apiCalls>>

\* lines 213, 418-471: the loop is over; the final update of the result
FinishRecon ==
    /\ \/ at = "loop" /\ idx >= Len(repoNames) /\ ~deep
       \/ at = "readme" /\ readmeAt >= Len(ReadmeRepos(repoNames))
    /\ at' = "done"
    /\ reconResult' = [updateResultEmails(reconResult, emailsToName, emailsToRepo,
                                          emailSources, FilterNoreply)
                          EXCEPT !.scan_progress = Completed]
    /\ UNCHANGED <<collVars, plainVars, batchVars, scanVars, smart, skipNoreply, repoNames, idx,
                   started, ended, emailsToName, emailsToRepo, emailSources, saved,
                   headVars, apiCalls>>

(* --------------------------- parallelRequests --------------------------- *)

\* the value ApiUtils.call(url) resolves with: a decoded body or an error
Bodies == {"json", "error"}

Response(url, body) == [url |-> url, body |-> body]

\* a promise of Promise.all that has not resolved
Pending == [url |-> 0, body |-> "pending"]

\* the URL lists: distinct URLs, or one URL repeated
UrlLists == UNION {{[j \in 1..n |-> j], [j \in 1..n |-> 1]} : n \in 0..MaxUrls}

\* the concurrency option
Concurrencies == 1..10

\* line 15: urls.slice(i, i + concurrency), as the positions of the slice
BatchOf(list, from, c) ==
    [j \in 1..((IF from + c < Len(list) THEN from + c ELSE Len(list)) - from) |->
        from + j]

\* mutant of Gathered: the values in the order the requests resolved in
GatheredAsResolved(batch, slots, order) ==
    [j \in 1..Len(batch) |->
        LET p == order[Len(order) - Len(batch) + j].pos
        IN  slots[p - batch[1] + 1]]

\* line 16: Promise.all resolves with the values in the order of the batch
Gathered(batch, slots, order) == slots

\* mutant of AllResolved: the await ends when one request has resolved
AnyResolved(slots) == \E j \in 1..Len(slots) : slots[j] # Pending

\* line 16: the await of Promise.all ends when every promise has resolved
AllResolved(slots) == \A j \in 1..Len(slots) : slots[j] # Pending

\* mutant of Reported: the size of the window is reported
ReportedWindow(done, batch, list) == <<Len(batch), Len(list)>>

\* lines 20-23: completed += batch.length; onProgress(completed, urls.length)
Reported(done, batch, list) == <<done + Len(batch), Len(list)>>

\* no call of parallelRequests
BatchIdle ==
    /\ urls = <<>>
    /\ concurrency = 1
    /\ onProgress = FALSE
    /\ batchAt = "idle"
    /\ batchI = 0
    /\ results = <<>>
    /\ completed = 0
    /\ batchResults = <<>>
    /\ issued = <<>>
    /\ resolved = <<>>
    /\ progress = <<>>

\* lines 9-12: a call of parallelRequests
BatchInit ==
    /\ urls \in UrlLists
    /\ concurrency \in Concurrencies
    /\ onProgress \in BOOLEAN
    /\ batchAt = "loop"
    /\ batchI = 0
    /\ results = <<>>
    /\ completed = 0
    /\ batchResults = <<>>
    /\ issued = <<>>
    /\ resolved = <<>>
    /\ progress = <<>>

\* lines 14-17: the loop test; the requests of the window are all issued
IssueWindow ==
    /\ batchAt = "loop"
    /\ batchI < Len(urls)
    /\ batchAt' = "awaiting"
    /\ batchResults' = [j \in 1..Len(BatchOf(urls, batchI, concurrency)) |-> Pending]
    /\ issued' = issued \o BatchOf(urls, batchI, concurrency)
    /\ UNCHANGED <<urls, concurrency, onProgress, batchI, results, completed,
                   resolved, progress>>
    /\ UNCHANGED <<collVars, plainVars, reconVars, scanVars>>

\* one outstanding request of the window resolves
ResolveRequest ==
    /\ batchAt = "awaiting"
    /\ \E j \in 1..Len(batchResults), body \in Bodies :
          /\ batchResults[j] = Pending
          /\ LET r == Response(urls[batchI + j], body)
             IN  /\ batchResults' = [batchResults EXCEPT ![j] = r]
                 /\ resolved' = Append(resolved, [pos |-> batchI + j, response |-> r])
    /\ UNCHANGED <<urls, concurrency, onProgress, batchAt, batchI, results,
                   completed, issued, progress>>
    /\ UNCHANGED <<collVars, plainVars, reconVars, scanVars>>

\* lines 16-24 and the i += concurrency of line 14: every request of the
\* window has resolved
WindowDone ==
    /\ batchAt = "awaiting"
    /\ AllResolved(batchResults)
    /\ LET batch == BatchOf(urls, batchI, concurrency)
       IN  /\ results' = results \o Gathered(batch, batchResults, resolved)
           /\ completed' = completed + Len(batch)
           /\ progress' = IF onProgress
                          THEN Append(progress, Reported(completed, batch, urls))
                          ELSE progress
    /\ batchI' = batchI + concurrency
    /\ batchAt' = "loop"
    /\ batchResults' = <<>>
    /\ UNCHANGED <<urls, concurrency, onProgress, issued, resolved>>
    /\ UNCHANGED <<collVars, plainVars, reconVars, scanVars>>

\* lines 14, 27: the loop is over
ReturnResults ==
    /\ batchAt = "loop"
    /\ batchI >= Len(urls)
    /\ batchAt' = "returned"
    /\ UNCHANGED <<urls, concurrency, onProgress, batchI, results, completed,
                   batchResults, issued, resolved, progress>>
    /\ UNCHANGED <<collVars, plainVars, reconVars, scanVars>>

(* ------------------- SmartScanner: priority and filter ------------------- *)

\* scores are counted in thousandths of a point
Milli == 1000

\* lines 47-55: priorityWeights
recentActivity == 30
hasDescription == 5
notFork == 20
starCount == 10
commitCount == 15
hasIssues == 5
notArchived == 15

\* line 66: a month is 1000 * 60 * 60 * 24 * 30 milliseconds; ages are
\* counted in days
MonthDays == 30

\* a repository of the listing: pushed is whether pushed_at is set, age the
\* days from pushed_at to now (negative: pushed_at lies ahead of the clock),
\* description whether the description is non-empty
Repo(name, fork, archived, stars, pushed, age, description, issues) ==
    [name |-> name, fork |-> fork, archived |-> archived,
     stargazers_count |-> stars, pushed |-> pushed, age |-> age,
     description |-> description, has_issues |-> issues]

\* mutant of Recency: every push of the last 12 months has the full weight
RecencyFlat(repo) ==
    IF repo.pushed /\ repo.age < 12 * MonthDays THEN recentActivity * Milli ELSE 0

\* lines 64-70: the recency term
Recency(repo) ==
    IF ~repo.pushed THEN 0
    ELSE IF repo.age < 1 * MonthDays THEN recentActivity * Milli
    ELSE IF repo.age < 6 * MonthDays THEN (recentActivity * Milli * 7) \div 10
    ELSE IF repo.age < 12 * MonthDays THEN (recentActivity * Milli * 3) \div 10
    ELSE 0

\* line 80: Math.log10(n) * 5 in thousandths, rounded down, for the values
\* of stargazers_count + 1 that occur
Log10Times5(n) ==
    CASE n = 2 -> 1505
      [] n = 10 -> 5000
      [] n = 99 -> 9978
      [] n = 100 -> 10000
      [] n = 101 -> 10021
      [] n = 5001 -> 18495

\* mutant of StarTerm: the logarithm is not capped
StarTermUncapped(repo) ==
    IF repo.stargazers_count > 0 THEN Log10Times5(repo.stargazers_count + 1) ELSE 0

\* lines 79-81: the star term
StarTerm(repo) ==
    IF repo.stargazers_count > 0
    THEN LET scaled == Log10Times5(repo.stargazers_count + 1)
         IN  IF scaled < starCount * Milli THEN scaled ELSE starCount * Milli
    ELSE 0

\* lines 59-90
calculateRepoPriority(repo) ==
    Recency(repo)
    + (IF repo.description THEN hasDescription * Milli ELSE 0)
    + (IF ~repo.fork THEN notFork * Milli ELSE 0)
    + StarTerm(repo)
    + (IF ~repo.archived THEN notArchived * Milli ELSE 0)
    + (IF repo.has_issues THEN hasIssues * Milli ELSE 0)

\* lines 95-98: {...repo, priority: this.calculateRepoPriority(repo)}
WithPriority(repo) ==
    [name |-> repo.name, fork |-> repo.fork, archived |-> repo.archived,
     stargazers_count |-> repo.stargazers_count, pushed |-> repo.pushed,
     age |-> repo.age, description |-> repo.description,
     has_issues |-> repo.has_issues, priority |-> calculateRepoPriority(repo)]

\* mutant of InsertSorted: x goes before the elements of equal priority
InsertSortedBeforeEqual(sorted, x) ==
    LET before == {j \in 1..Len(sorted) : sorted[j].priority > x.priority}
        n == Cardinality(before)
    IN  SubSeq(sorted, 1, n) \o <<x>> \o SubSeq(sorted, n + 1, Len(sorted))

\* line 99: where Array.prototype.sort with (a, b) => b.priority - a.priority
\* puts x among the elements that came before it: after every element of
\* greater or equal priority (the sort is stable)
InsertSorted(sorted, x) ==
    LET before == {j \in 1..Len(sorted) : sorted[j].priority >= x.priority}
        n == Cardinality(before)
    IN  SubSeq(sorted, 1, n) \o <<x>> \o SubSeq(sorted, n + 1, Len(sorted))

\* line 99: .sort((a, b) => b.priority - a.priority)
RECURSIVE SortDescending(_, _)
SortDescending(list, n) ==
    IF n = 0 THEN <<>> ELSE InsertSorted(SortDescending(list, n - 1), list[n])

\* lines 93-100
sortReposByPriority(list) ==
    SortDescending([j \in 1..Len(list) |-> WithPriority(list[j])], Len(list))

\* an option that is null or was not given
NoNumber == 0 - 1

\* the truthiness of a numeric option
Truthy(n) == n # NoNumber /\ n # 0

\* lines 112-130: the predicate of repos.filter
Keeps(repo, options) ==
    /\ ~(~options.includeForks /\ repo.fork)
    /\ ~(~options.includeArchived /\ repo.archived)
    /\ ~(repo.stargazers_count < options.minStars)
    /\ ~(/\ Truthy(options.maxAge)
         /\ repo.pushed
         /\ repo.age > options.maxAge * MonthDays)

\* the elements of list that pass, in their order
RECURSIVE FilterSeq(_, _)
FilterSeq(list, options) ==
    IF list = <<>> THEN <<>>
    ELSE IF Keeps(Head(list), options)
    THEN <<Head(list)>> \o FilterSeq(Tail(list), options)
    ELSE FilterSeq(Tail(list), options)

\* lines 136-138: if (maxRepos && filtered.length > maxRepos) slice
Limit(sorted, maxRepos) ==
    IF Truthy(maxRepos) /\ Len(sorted) > maxRepos
    THEN SubSeq(sorted, 1, maxRepos)
    ELSE sorted

\* lines 103-141
filterRepos(list, options) ==
    Limit(sortReposByPriority(FilterSeq(list, options)), options.maxRepos)

(* --------------------- SmartScanner: the call budget --------------------- *)

\* lines 254-260: the defaults of the options of estimateApiCalls
EstimateDefaults ==
    [fetchProfile |-> TRUE, fetchOrgs |-> TRUE, fetchKeys |-> TRUE,
     fetchGists |-> FALSE, avgCommitsPerRepo |-> 50]

\* lines 254-260: an option that is not given takes its default
WithDefaults(options) ==
    [f \in DOMAIN EstimateDefaults |->
        IF f \in DOMAIN options THEN options[f] ELSE EstimateDefaults[f]]

\* mutant of Ceil100: Math.floor
Floor100(n) == n \div 100

\* lines 270, 273: Math.ceil(n / 100) for a natural n
Ceil100(n) == (n + 99) \div 100

\* lines 253-276
estimateApiCalls(repoCount, options) ==
    LET o == WithDefaults(options)
    IN  (IF o.fetchProfile THEN 1 ELSE 0)
        + (IF o.fetchOrgs THEN 1 ELSE 0)
        + (IF o.fetchKeys THEN 1 ELSE 0)
        + (IF o.fetchGists THEN 1 ELSE 0)
        + Ceil100(repoCount)
        + repoCount * Ceil100(o.avgCommitsPerRepo)

\* line 292: the safety margin
SafetyMargin == 10

\* lines 289-309: the recommendations of a scan that does not fit
Recommendations(rateLimitRemaining, options) ==
    LET callsPerRepo == estimateApiCalls(1, options)
        safeRepoCount == (rateLimitRemaining - SafetyMargin) \div callsPerRepo
    IN  <<[type |-> "limit_repos", value |-> safeRepoCount],
          [type |-> "use_token", value |-> NoNumber],
          [type |-> "skip_forks", value |-> NoNumber]>>

\* mutant of CanComplete: the quota must exceed the estimate
CanCompleteStrictly(estimatedCalls, rateLimitRemaining) ==
    estimatedCalls < rateLimitRemaining

\* line 283
CanComplete(estimatedCalls, rateLimitRemaining) ==
    estimatedCalls <= rateLimitRemaining

\* lines 279-312
generateScanStrategy(repoCount, rateLimitRemaining, options) ==
    LET estimatedCalls == estimateApiCalls(repoCount, options)
        canComplete == CanComplete(estimatedCalls, rateLimitRemaining)
    IN  [canComplete |-> canComplete,
         estimatedCalls |-> estimatedCalls,
         rateLimitRemaining |-> rateLimitRemaining,
         recommendations |-> IF ~canComplete
                             THEN Recommendations(rateLimitRemaining, options)
                             ELSE <<>>]

(* ----------------------- calls of the SmartScanner ----------------------- *)

\* the repositories calculateRepoPriority is given
Stars == {0, 1, 9, 98, 99, 100, 5000}

Ages == {0 - 1, 0, 29, 30, 179, 180, 359, 360, 400}

ScoredRepos ==
    {Repo(1, fork, archived, stars, TRUE, age, description, issues) :
        fork \in BOOLEAN, archived \in BOOLEAN, stars \in Stars, age \in Ages,
        description \in BOOLEAN, issues \in BOOLEAN}
    \cup {Repo(1, fork, archived, stars, FALSE, 0, description, issues) :
            fork \in BOOLEAN, archived \in BOOLEAN, stars \in Stars,
            description \in BOOLEAN, issues \in BOOLEAN}

\* the repositories of the lists that are sorted and filtered, without
\* their names: two of equal score, a fork, an archived one, one without
\* pushed_at, an old one with many stars
ListedRepos ==
    <<Repo(0, FALSE, FALSE, 0, TRUE, 100, TRUE, TRUE),
      Repo(0, FALSE, FALSE, 0, TRUE, 29, TRUE, TRUE),
      Repo(0, TRUE, FALSE, 9, TRUE, 0, FALSE, TRUE),
      Repo(0, FALSE, TRUE, 99, TRUE, 179, TRUE, FALSE),
      Repo(0, FALSE, FALSE, 1, FALSE, 0, FALSE, FALSE),
      Repo(0, FALSE, FALSE, 5000, TRUE, 400, TRUE, TRUE)>>

\* the lists: the j-th repository is named j
RepoLists ==
    UNION {{[j \in 1..n |-> [ListedRepos[pick[j]] EXCEPT !.name = j]] :
                pick \in [1..n -> 1..Len(ListedRepos)]} :
           n \in 0..MaxListLen}

FilterOptions ==
    {[includeForks |-> forks, includeArchived |-> FALSE, minStars |-> 0,
      maxAge |-> NoNumber, maxRepos |-> cap] :
        forks \in BOOLEAN, cap \in {NoNumber, 0, 1, 2}}
    \cup {[includeForks |-> FALSE, includeArchived |-> archived, minStars |-> stars,
           maxAge |-> months, maxRepos |-> cap] :
            archived \in BOOLEAN, stars \in {0, 5}, months \in {NoNumber, 0, 3},
            cap \in {NoNumber}}

RepoCounts == {0, 1, 2, 99, 100, 101, 250}

Quotas == {0, 5, 10, 60, 256, 5000}

EstimateOptions ==
    {<<>>, [avgCommitsPerRepo |-> 50], [avgCommitsPerRepo |-> 0],
     [avgCommitsPerRepo |-> 101], [fetchGists |-> TRUE],
     [fetchGists |-> TRUE, avgCommitsPerRepo |-> 100],
     [fetchProfile |-> FALSE, fetchOrgs |-> FALSE, fetchKeys |-> FALSE],
     [fetchProfile |-> FALSE, fetchOrgs |-> FALSE, fetchKeys |-> FALSE,
      avgCommitsPerRepo |-> 0]}

\* the addresses classifyEmail is given: with one "@", with none, with
\* several
ValidEmails ==
    {EPersonal, EWork, ENoreply,
     <<"noreply", "@", "domain.com">>, <<"user", "@", "mailinator.com">>,
     <<"user", "@", "gmail.com">>, <<"user", "@", "acme-corp.io">>,
     <<"noreply", "@", "mailinator.com">>, <<"User", "@", "Gmail.com">>,
     <<"User", "@", "Mailinator.com">>, <<"NoReply", "@", "domain.com">>,
     <<"no-reply", "@", "gmail.com">>, <<"donotreply", "@", "acme-corp.io">>,
     <<"notifications", "@", "github.com">>,
     <<"notifications", "@", "github.com.evil.example">>,
     <<"notifications", "@", "gmail.com">>,
     <<"bot-noreply", "@", "acme-corp.io">>,
     <<"1+alice", "@", "Users.NoReply.GitHub.com">>,
     <<"bob", "@", "users.noreply.gitlab.com">>,
     <<"@", "users.noreply.github.com">>, <<"user", "@">>, <<"@">>}

MalformedEmails ==
    {EEmpty, EMalformed, <<"noreply">>, <<"alice", "@", "gmail.com", "@", "gmail.com">>,
     <<"@", "@">>, <<"noreply", "@", "@", "mailinator.com">>,
     <<"a", "@", "b", "@", "c", "@", "d">>}

\* no call of a method of the SmartScanner
\* lines 7-9: the constructor leaves an empty cache; no cache method has
\* been called
CacheInit ==
    /\ cache = <<>>
    /\ now = 0
    /\ cacheLog = <<>>

ScannerIdle ==
    /\ CacheInit
    /\ scFn = "none"
    /\ scArgs = <<>>
    /\ scRepos = <<>>
    /\ scOut = <<>>
    /\ scDone = FALSE

\* a call of a method of the SmartScanner with its arguments; scRepos is
\* the array the caller holds
ScannerInit ==
    /\ CacheInit
    /\ scDone = FALSE
    /\ scOut = <<>>
    /\ \/ /\ scFn = "calculateRepoPriority"
          /\ scArgs \in {[repo |-> r] : r \in ScoredRepos}
          /\ scRepos = <<>>
       \/ /\ scFn = "sortReposByPriority"
          /\ scArgs \in {[repos |-> l] : l \in RepoLists}
          /\ scRepos = scArgs.repos
       \/ /\ scFn = "filterRepos"
          /\ scArgs \in {[repos |-> l, options |-> o] :
                            l \in RepoLists, o \in FilterOptions}
          /\ scRepos = scArgs.repos
       \/ /\ scFn = "estimateApiCalls"
          /\ scArgs \in {[repoCount |-> n, options |-> o] :
                            n \in RepoCounts, o \in EstimateOptions}
          /\ scRepos = <<>>
       \/ /\ scFn = "generateScanStrategy"
          /\ scArgs \in {[repoCount |-> n, rateLimitRemaining |-> q, options |-> o] :
                            n \in RepoCounts, q \in Quotas, o \in EstimateOptions}
          /\ scRepos = <<>>
       \/ /\ scFn = "classifyEmail"
          /\ scArgs \in {[email |-> e] : e \in ValidEmails \cup MalformedEmails}
          /\ scRepos = <<>>

\* the call returns `out`; the caller's array is not written
ScannerReturns(out) ==
    /\ ~scDone
    /\ scDone' = TRUE
    /\ scOut' = out
    /\ UNCHANGED <<scFn, scArgs, scRepos, cache, now, cacheLog>>
    /\ UNCHANGED <<collVars, plainVars, reconVars, batchVars>>

CalculateRepoPriority ==
    /\ scFn = "calculateRepoPriority"
    /\ ScannerReturns(calculateRepoPriority(scArgs.repo))

SortReposByPriority ==
    /\ scFn = "sortReposByPriority"
    /\ ScannerReturns(sortReposByPriority(scRepos))

FilterRepos ==
    /\ scFn = "filterRepos"
    /\ ScannerReturns(filterRepos(scRepos, scArgs.options))

EstimateApiCalls ==
    /\ scFn = "estimateApiCalls"
    /\ ScannerReturns(estimateApiCalls(scArgs.repoCount, scArgs.options))

GenerateScanStrategy ==
    /\ scFn = "generateScanStrategy"
    /\ ScannerReturns(generateScanStrategy(scArgs.repoCount,
                                           scArgs.rateLimitRemaining,
                                           scArgs.options))

ClassifyEmail ==
    /\ scFn = "classifyEmail"
    /\ ScannerReturns(classifyEmail(scArgs.email))

(* ----------------------- the cache of responses ------------------------ *)

\* line 9: this.cacheExpiry, in milliseconds
cacheExpiry == 5 * 60 * 1000

\* Map.set: the value of a key that is held is replaced where it stands
MapSet(m, k, value) ==
    IF MapHas(m, k)
    THEN [j \in 1..Len(m) |->
            IF m[j].key = k THEN [key |-> k, value |-> value] ELSE m[j]]
    ELSE Append(m, [key |-> k, value |-> value])

\* Map.delete
MapDelete(m, k) == SelectSeq(m, LAMBDA entry : entry.key # k)

\* mutant of Expired: an entry expires when the clock reaches its expiry
ExpiredAtExpiry(clock, expiry) == clock >= expiry

\* line 233: Date.now() > cached.expiry
Expired(clock, expiry) == clock > expiry

\* lines 229-239: the cache getCached leaves and the value it returns
getCached(m, k, clock) ==
    IF ~MapHas(m, k)
    THEN [cache |-> m, out |-> Null]
    ELSE IF Expired(clock, MapGet(m, k).expiry)
    THEN [cache |-> MapDelete(m, k), out |-> Null]
    ELSE [cache |-> m, out |-> MapGet(m, k).data]

\* lines 241-246
setCache(m, k, data, clock) ==
    MapSet(m, k, [data |-> data, expiry |-> clock + cacheExpiry])

\* lines 248-250
clearCache(m) == <<>>

\* the keys and the data of the calls
CacheKeys == {"orgs", "keys"}

CacheData == {Prim, Arr(<<>>)}

\* the calls of one scanner, and how far its clock runs: so many expiry
\* periods and so many milliseconds
MaxCacheCalls == 3

MaxClock == 2

\* what the clock advances by between two calls: a millisecond, or the
\* expiry period
ClockSteps == {1, cacheExpiry}

CacheCall(fn, k, data, clock, out) ==
    [fn |-> fn, key |-> k, data |-> data, at |-> clock, out |-> out]

CacheRest ==
    UNCHANGED <<collVars, plainVars, reconVars, batchVars, scFn, scArgs,
                scRepos, scOut, scDone>>

GetCached ==
    /\ scFn = "none"
    /\ Len(cacheLog) < MaxCacheCalls
    /\ \E k \in CacheKeys :
          LET r == getCached(cache, k, now)
          IN  /\ cache' = r.cache
              /\ cacheLog' = Append(cacheLog,
                                    CacheCall("getCached", k, Null, now, r.out))
    /\ UNCHANGED now
    /\ CacheRest

SetCache ==
    /\ scFn = "none"
    /\ Len(cacheLog) < MaxCacheCalls
    /\ \E k \in CacheKeys, data \in CacheData :
          /\ cache' = setCache(cache, k, data, now)
          /\ cacheLog' = Append(cacheLog,
                                CacheCall("setCache", k, data, now, Null))
    /\ UNCHANGED now
    /\ CacheRest

ClearCache ==
    /\ scFn = "none"
    /\ Len(cacheLog) < MaxCacheCalls
    /\ cache' = clearCache(cache)
    /\ cacheLog' = Append(cacheLog, CacheCall("clearCache", "", Null, now, Null))
    /\ UNCHANGED now
    /\ CacheRest

\* time passes between two calls
ClockAdvances ==
    /\ scFn = "none"
    /\ Len(cacheLog) < MaxCacheCalls
    /\ \E d \in ClockSteps :
          /\ (now + d) \div cacheExpiry <= MaxClock
          /\ (now + d) % cacheExpiry <= MaxClock
          /\ now' = now + d
    /\ UNCHANGED <<cache, cacheLog>>
    /\ CacheRest

(* ------------- runGithubRecon: before and after the loop ------------- *)

Options(isSmart, skips, isDeep, forks, cap) ==
    [smart |-> isSmart, skipNoreply |-> skips, deep |-> isDeep,
     saveFork |-> forks, maxRepos |-> cap]

\* lines 21-35: the options of the runs; maxAge, scanNetwork and findSecrets
\* are not given, and a deep scan is run with maxRepos = 1
ReconOptions ==
    {Options(FALSE, FALSE, FALSE, FALSE, NoNumber),
     Options(FALSE, TRUE, FALSE, TRUE, NoNumber),
     Options(TRUE, FALSE, FALSE, FALSE, NoNumber),
     Options(TRUE, TRUE, FALSE, TRUE, NoNumber),
     Options(FALSE, FALSE, FALSE, TRUE, 1),
     Options(TRUE, FALSE, FALSE, FALSE, 1),
     Options(FALSE, FALSE, TRUE, FALSE, 1),
     Options(FALSE, TRUE, TRUE, TRUE, 1),
     Options(TRUE, FALSE, TRUE, FALSE, 1)}

\* lines 20-65: runGithubRecon has been called
ReconInit ==
    /\ \E o \in ReconOptions :
          /\ smart = o.smart
          /\ skipNoreply = o.skipNoreply
          /\ deep = o.deep
          /\ saveFork = o.saveFork
          /\ optMaxRepos = o.maxRepos
    /\ repoNames = <<>>
    /\ idx = 0
    /\ at = "start"
    /\ started = <<>>
    /\ ended = <<>>
    /\ emailsToName = <<>>
    /\ emailsToRepo = <<>>
    /\ emailSources = <<>>
    /\ reconResult = [leaked_emails |-> <<>>, email_details |-> <<>>,
                      scan_progress |-> NoProgress]
    /\ saved = <<>>
    /\ warned = <<>>
    /\ readmeAt = 0
    /\ userInfo = Null
    /\ apiCalls = <<>>

\* resources.core.remaining of the answer of getRateLimit; NoNumber is an
\* answer without resources.core, or a call that failed
RateLimits == {NoNumber, 5, 60, 5000}

\* line 74: if (remaining < 50)
LowQuota == 50

\* line 82: generateScanStrategy(100, remaining, { fetchGists: deep })
PlannedRepos == 100

\* lines 69-89: what the check writes with console.warn
Warnings(quota) ==
    IF quota = NoNumber
    THEN <<>>
    ELSE (IF quota < LowQuota
          THEN <<[type |-> "low_quota", value |-> quota]>>
          ELSE <<>>)
         \o (IF smart
             THEN LET strategy == generateScanStrategy(PlannedRepos, quota,
                                                       [fetchGists |-> deep])
                  IN  IF ~strategy.canComplete
                      THEN strategy.recommendations
                      ELSE <<>>
             ELSE <<>>)

\* lines 66-92: the rate-limit check; rateLimitData and strategy are local
\* to its try block
CheckRateLimit ==
    /\ at = "start"
    /\ \E quota \in RateLimits : warned' = Warnings(quota)
    /\ apiCalls' = Append(apiCalls, ApiCall("getRateLimit", 0, 0))
    /\ at' = "profile"
    /\ UNCHANGED <<collVars, plainVars, batchVars, scanVars, smart, skipNoreply,
                   repoNames, idx, started, ended, emailsToName, emailsToRepo,
                   emailSources, reconResult, saved, deep, saveFork,
                   optMaxRepos, readmeAt, userInfo>>

\* what getUserProfile returns: null, a profile (an object without message
\* and error), or an object with a message or an error
ProfileResults ==
    {Null} \cup {Obj(m, e) : m \in {"absent", "Not Found", "other", "nonstring"},
                             e \in BOOLEAN}

\* mutant of NotFound: only a missing answer counts
NotFoundIfMissing(info) == info = Null

\* line 96: !userInfo || userInfo.error || (userInfo.message &&
\* userInfo.message.includes('Not Found'))
NotFound(info) ==
    info = Null \/ info.error \/ info.message = "Not Found"

\* lines 94-128: the profile; the fields of the result that are copied from
\* it are not modelled.  A truthy message that is no string makes
\* message.includes throw, which ends the run
FetchProfile ==
    /\ at = "profile"
    /\ apiCalls' = Append(apiCalls, ApiCall("getUserProfile", 0, 0))
    /\ \E info \in ProfileResults :
          /\ userInfo' = info
          /\ IF NotFound(info)
             THEN at' = "notFound" /\ UNCHANGED saved
             ELSE IF IncludesThrows(info)
             THEN at' = "rejected" /\ UNCHANGED saved
             ELSE at' = "orgs" /\ saved' = Append(saved, reconResult)
    /\ UNCHANGED <<collVars, plainVars, batchVars, scanVars, smart, skipNoreply,
                   repoNames, idx, started, ended, emailsToName, emailsToRepo,
                   emailSources, reconResult, deep, saveFork, optMaxRepos,
                   warned, readmeAt>>

\* lines 134-152: result.organizations is not modelled
FetchOrganizations ==
    /\ at = "orgs"
    /\ apiCalls' = Append(apiCalls, ApiCall("getUserOrganizations", 0, 0))
    /\ \E isArray \in BOOLEAN :
          IF isArray
          THEN saved' = Append(saved, reconResult)
          ELSE UNCHANGED saved
    /\ at' = "keys"
    /\ UNCHANGED <<collVars, plainVars, batchVars, scanVars, smart, skipNoreply,
                   repoNames, idx, started, ended, emailsToName, emailsToRepo,
                   emailSources, reconResult, headVars>>

\* lines 154-171: result.keys is not modelled
FetchKeys ==
    /\ at = "keys"
    /\ apiCalls' = Append(apiCalls, ApiCall("getUserKeys", 0, 0))
    /\ \E isArray \in BOOLEAN :
          IF isArray
          THEN saved' = Append(saved, reconResult)
          ELSE UNCHANGED saved
    /\ at' = "listing"
    /\ UNCHANGED <<collVars, plainVars, batchVars, scanVars, smart, skipNoreply,
                   repoNames, idx, started, ended, emailsToName, emailsToRepo,
                   emailSources, reconResult, headVars>>

\* the repositories the upstream lists for the user: up to MaxRepos plain
\* ones, one name listed twice, a fork first, one of high priority last
PlainRepo(name) == Repo(name, FALSE, FALSE, 0, TRUE, 100, TRUE, TRUE)

ReconListings ==
    {[j \in 1..n |-> PlainRepo(j)] : n \in 0..MaxRepos}
    \cup {<<PlainRepo(1), PlainRepo(1)>>,
          <<Repo(1, TRUE, FALSE, 0, TRUE, 100, TRUE, TRUE), PlainRepo(2)>>,
          <<PlainRepo(1), Repo(2, FALSE, FALSE, 5000, TRUE, 0, TRUE, TRUE)>>}

\* githubApi.js lines 45-60: getRepositories returns the name and the fork
\* flag of every repository whose name it has not seen
RECURSIVE NamesAndForks(_, _)
NamesAndForks(listing, seen) ==
    IF listing = <<>>
    THEN <<>>
    ELSE IF Head(listing).name \in seen
    THEN NamesAndForks(Tail(listing), seen)
    ELSE <<Repository(Head(listing).name, Head(listing).fork)>>
            \o NamesAndForks(Tail(listing), seen \cup {Head(listing).name})

\* lines 191-196
smartSelection(list) ==
    filterRepos(list, [includeForks |-> saveFork, includeArchived |-> FALSE,
                       minStars |-> 0, maxAge |-> NoNumber,
                       maxRepos |-> optMaxRepos])

\* lines 202-204
plainSelection(list) ==
    LET kept == SelectSeq(list, LAMBDA repo : ~repo.fork \/ saveFork)
        end == IF Truthy(optMaxRepos) THEN optMaxRepos ELSE Len(list)
    IN  IF end < Len(kept) THEN SubSeq(kept, 1, end) ELSE kept

\* the repository count the planner recommended, if it recommended one
AdvisedCount ==
    IF \E j \in 1..Len(warned) : warned[j].type = "limit_repos"
    THEN LET rec == warned[CHOOSE j \in 1..Len(warned) :
                              warned[j].type = "limit_repos"]
         IN  IF rec.value < 0 THEN 0 ELSE rec.value
    ELSE NoNumber

\* mutant of reposToScan: the recommendation of the planner is enforced
reposToScanAdvised(list) ==
    LET chosen == IF smart THEN smartSelection(list) ELSE plainSelection(list)
    IN  IF AdvisedCount # NoNumber /\ AdvisedCount < Len(chosen)
        THEN SubSeq(chosen, 1, AdvisedCount)
        ELSE chosen

\* lines 189-206
reposToScan(list) ==
    IF smart THEN smartSelection(list) ELSE plainSelection(list)

\* lines 179-209: the repositories are listed and the ones to scan selected;
\* getRepositories may throw, which ends the run
ListRepositories ==
    /\ at = "listing"
    /\ apiCalls' = Append(apiCalls,
                          ApiCall(IF smart THEN "getRepositoriesDetailed"
                                  ELSE "getRepositories", 0, 1))
    /\ \/ /\ ~smart
          /\ at' = "rejected"
          /\ UNCHANGED <<repositories, repoNames>>
       \/ \E listing \in ReconListings :
             LET listed == IF smart THEN listing ELSE NamesAndForks(listing, {})
                 chosen == reposToScan(listed)
             IN  /\ repositories' = listed
                 /\ repoNames' = [j \in 1..Len(chosen) |-> chosen[j].name]
                 /\ at' = "loop"
    /\ UNCHANGED <<call, pc, pageCounter, signal, fetched, served,
                   repositoriesSeen, seenCommits, newEmails, commitCounter,
                   plainVars, batchVars, scanVars, smart, skipNoreply, idx,
                   started, ended, emailsToName, emailsToRepo, emailSources,
                   reconResult, saved, headVars>>

\* lines 270-286: the gists of the deep scan; result.gists is not modelled
FetchGists ==
    /\ at = "loop"
    /\ idx >= Len(repoNames)
    /\ deep
    /\ apiCalls' = Append(apiCalls, ApiCall("getUserGists", 0, 1))
    /\ at' = "events"
    /\ UNCHANGED <<collVars, plainVars, batchVars, scanVars, smart, skipNoreply,
                   repoNames, idx, started, ended, emailsToName, emailsToRepo,
                   emailSources, reconResult, saved, headVars>>

\* a public event: its type and the authors of payload.commits; an author
\* without a name has the name ""
Event(type, authors) == [type |-> type, commits |-> authors]

Author(email, name) == [email |-> email, name |-> name]

\* what getUserEvents returns: no event, or a push with a noreply author,
\* an author without a name and an author without an e-mail, and a watch
ReconEvents ==
    {<<>>,
     <<Event("PushEvent", <<Author(ENoreply, "Alice A"), Author(EWork, ""),
                            Author(EEmpty, "Alice A"), Author(EPersonal, "Al")>>),
       Event("WatchEvent", <<>>)>>}

\* githubApi.js lines 292-302: the authors of one push
RECURSIVE AuthorsOf(_, _)
AuthorsOf(emails, authors) ==
    IF authors = <<>>
    THEN emails
    ELSE LET author == Head(authors)
         IN  AuthorsOf(IF author.email # EEmpty
                       THEN MapAdd(emails, author.email,
                                   IF author.name # "" THEN author.name
                                   ELSE "Unknown")
                       ELSE emails,
                       Tail(authors))

\* githubApi.js lines 287-307
RECURSIVE extractEmailsFromEvents(_, _)
extractEmailsFromEvents(emails, list) ==
    IF list = <<>>
    THEN emails
    ELSE extractEmailsFromEvents(
            IF Head(list).type = "PushEvent"
            THEN AuthorsOf(emails, Head(list).commits)
            ELSE emails,
            Tail(list))

\* mutant of MergeEventEmails: the channel of the address is not recorded
RECURSIVE MergeEventEmailsUnsourced(_, _)
MergeEventEmailsUnsourced(agg, emails) ==
    IF emails = <<>>
    THEN agg
    ELSE LET entry == Head(emails)
         IN  MergeEventEmailsUnsourced(
                IF FilterNoreply /\ classifyEmail(entry.key).isNoreply
                THEN agg
                ELSE [emailsToName |-> MapAddAll(agg.emailsToName, entry.key,
                                                 entry.value),
                      emailSources |-> agg.emailSources],
                Tail(emails))

\* lines 296-312: the entries of the Map of the events, in its order
RECURSIVE MergeEventEmails(_, _)
MergeEventEmails(agg, emails) ==
    IF emails = <<>>
    THEN agg
    ELSE LET entry == Head(emails)
         IN  MergeEventEmails(
                IF FilterNoreply /\ classifyEmail(entry.key).isNoreply
                THEN agg
                ELSE [emailsToName |-> MapAddAll(agg.emailsToName, entry.key,
                                                 entry.value),
                      emailSources |-> MapAdd(agg.emailSources, entry.key,
                                              "event")],
                Tail(emails))

\* lines 289-328: the events of the deep scan; the call may fail, which
\* the catch swallows; result.events_summary is not modelled
ScanEvents ==
    /\ at = "events"
    /\ apiCalls' = Append(apiCalls, ApiCall("getUserEvents", 0, 1))
    /\ \/ UNCHANGED <<emailsToName, emailSources>>
       \/ \E list \in ReconEvents :
             LET agg == MergeEventEmails(
                            [emailsToName |-> emailsToName,
                             emailSources |-> emailSources],
                            extractEmailsFromEvents(<<>>, list))
             IN  /\ emailsToName' = agg.emailsToName
                 /\ emailSources' = agg.emailSources
    /\ at' = "readme"
    /\ readmeAt' = 0
    /\ UNCHANGED <<collVars, plainVars, batchVars, scanVars, smart, skipNoreply,
                   repoNames, idx, started, ended, emailsToRepo, reconResult,
                   saved, deep, saveFork, optMaxRepos, warned, userInfo>>

\* the domains of the modelled addresses that end with a dot and two
\* letters or more
DottedDomains ==
    {"gmail.com", "acme-corp.io", "users.noreply.github.com", "domain.com",
     "mailinator.com"}

\* githubApi.js line 433: the regular expression, for a word of the text
\* that holds one "@" at most
MatchesAddress(word) ==
    /\ Len(word) = 3
    /\ word[1] # "@"
    /\ word[2] = "@"
    /\ word[3] \in DottedDomains

\* githubApi.js line 435: [...new Set(matches)]
RECURSIVE Deduplicated(_, _)
Deduplicated(list, seen) ==
    IF list = <<>>
    THEN <<>>
    ELSE IF Head(list) \in seen
    THEN Deduplicated(Tail(list), seen)
    ELSE <<Head(list)>> \o Deduplicated(Tail(list), seen \cup {Head(list)})

\* githubApi.js lines 432-436; a text is the sequence of its words
extractEmailsFromText(text) ==
    Deduplicated(SelectSeq(text, MatchesAddress), {})

\* what getRepoReadme returns: null, or the decoded text
NoReadme == [found |-> FALSE, text |-> <<>>]

Readme(text) == [found |-> TRUE, text |-> text]

ReconReadmes ==
    {NoReadme,
     Readme(<<ENoreply, EWork, ENoreply, <<"alice", "@", "localhost">>,
              EMalformed>>)}

\* lines 340-356: the addresses extracted from one README
RECURSIVE MergeReadmeEmails(_, _)
MergeReadmeEmails(agg, extracted) ==
    IF extracted = <<>>
    THEN agg
    ELSE LET email == Head(extracted)
         IN  MergeReadmeEmails(
                IF FilterNoreply /\ classifyEmail(email).isNoreply
                THEN agg
                ELSE [emailsToName |-> MapAdd(agg.emailsToName, email, "README"),
                      emailSources |-> MapAdd(agg.emailSources, email, "readme")],
                Tail(extracted))

\* lines 331-361: the README of the next of the first repositories
ReadReadme ==
    /\ at = "readme"
    /\ readmeAt < Len(ReadmeRepos(repoNames))
    /\ apiCalls' = Append(apiCalls,
                          ApiCall("getRepoReadme", repoNames[readmeAt + 1], 0))
    /\ \E readme \in ReconReadmes :
          LET agg == IF readme.found
                     THEN MergeReadmeEmails([emailsToName |-> emailsToName,
                                             emailSources |-> emailSources],
                                            extractEmailsFromText(readme.text))
                     ELSE [emailsToName |-> emailsToName,
                           emailSources |-> emailSources]
          IN  /\ emailsToName' = agg.emailsToName
              /\ emailSources' = agg.emailSources
    /\ readmeAt' = readmeAt + 1
    /\ UNCHANGED <<collVars, plainVars, batchVars, scanVars, smart, skipNoreply,
                   repoNames, idx, at, started, ended, emailsToRepo,
                   reconResult, saved, deep, saveFork, optMaxRepos, warned, userInfo>>

(* ------------------------- the collectors' runs ------------------------- *)

CollInit(c) ==
    /\ call = c
    /\ pc = "running"
    /\ pageCounter = 1
    /\ signal = "none"
    /\ fetched = <<>>
    /\ served = <<>>
    /\ repositoriesSeen = {}
    /\ repositories = <<>>
    /\ seenCommits = {}
    /\ newEmails = <<>>
    /\ commitCounter = 1

\* one call of getRepositories, or one call of getEmails
Init ==
    /\ \E c \in {"getRepositories", "getEmails"} : CollInit(c)
    /\ PlainInit
    /\ ReconIdle
    /\ BatchIdle
    /\ ScannerIdle

Next == GetRepositoriesPage \/ GetEmailsPage

Spec == Init /\ [][Next]_vars

\* the keys of an upstream that has finitely many items
KeyUniverse == PageSize

\* the key of item i of a full page of such an upstream: the keys from
\* `shift` on, around the universe, or one key throughout (step = 0)
FiniteKey(step, shift, i) == (((i - 1) * step + shift) % KeyUniverse) + 1

FiniteShifts == {0, 1, 2, PageSize \div 2, PageSize - 2, PageSize - 1}

\* an upstream that answers every request with a full page
FiniteRepoPages ==
    {Arr([i \in 1..PageSize |-> RepoItem(FiniteKey(step, shift, i))]) :
        step \in {0, 1}, shift \in FiniteShifts}

FiniteCommitPages ==
    {Arr([i \in 1..PageSize |-> CommitOfKind(kind, FiniteKey(step, shift, i))]) :
        step \in {0, 1}, shift \in FiniteShifts,
        kind \in {"target", "other", "nullAuthor"}}

\* getRepositories against such an upstream
FiniteRepositoriesPage ==
    /\ call = "getRepositories"
    /\ GetRepositoriesTurn(FiniteRepoPages)

\* getEmails against such an upstream
FiniteEmailsPage ==
    /\ at = "idle"
    /\ GetEmailsTurn(FiniteCommitPages)
    /\ UNCHANGED reconVars

NextFinite == FiniteRepositoriesPage \/ FiniteEmailsPage

\* one call of getRepositories or of getEmails; every request is answered
SpecFinite == Init /\ [][NextFinite]_vars /\ WF_vars(NextFinite)

\* getRepositories and then the five collectors without a seen set, all
\* walking the same listing
InitPlain ==
    CollInit("getRepositories") /\ PlainInit /\ ReconIdle /\ BatchIdle /\ ScannerIdle

NextPlain ==
    \/ GetRepositoriesPage
    \/ GetUserGistsPage
    \/ GetRepoContributorsPage
    \/ GetRepositoriesDetailedPage
    \/ GetUserStarredPage
    \/ GetUserEventsPage

SpecPlain == InitPlain /\ [][NextPlain]_vars

\* runGithubRecon from its call to its return
InitRecon ==
    /\ call = "getEmails"
    /\ pc = "idle"
    /\ pageCounter = 1
    /\ signal = "none"
    /\ fetched = <<>>
    /\ served = <<>>
    /\ repositoriesSeen = {}
    /\ repositories = <<>>
    /\ seenCommits = {}
    /\ newEmails = <<>>
    /\ commitCounter = 1
    /\ PlainInit
    /\ ReconInit
    /\ BatchIdle
    /\ ScannerIdle

NextRecon ==
    \/ CheckRateLimit
    \/ FetchProfile
    \/ FetchOrganizations
    \/ FetchKeys
    \/ ListRepositories
    \/ FetchGists
    \/ ScanEvents
    \/ ReadReadme
    \/ ScanRepository
    \/ ScanGetEmailsPage
    \/ MergeNewEmails
    \/ CatchScanError
    \/ FinishRecon

SpecRecon == InitRecon /\ [][NextRecon]_vars

\* one call of parallelRequests
InitBatch ==
    CollInit("none") /\ PlainInit /\ ReconIdle /\ BatchInit /\ ScannerIdle

NextBatch ==
    \/ IssueWindow
    \/ ResolveRequest
    \/ WindowDone
    \/ ReturnResults

SpecBatch == InitBatch /\ [][NextBatch]_vars

\* one call of a method of the SmartScanner
InitScanner ==
    CollInit("none") /\ PlainInit /\ ReconIdle /\ BatchIdle /\ ScannerInit

NextScanner ==
    \/ CalculateRepoPriority
    \/ SortReposByPriority
    \/ FilterRepos
    \/ EstimateApiCalls
    \/ GenerateScanStrategy
    \/ ClassifyEmail

SpecScanner == InitScanner /\ [][NextScanner]_vars

\* the cache of one SmartScanner, none of whose other methods is called
InitCache ==
    CollInit("none") /\ PlainInit /\ ReconIdle /\ BatchIdle /\ ScannerIdle

NextCache == GetCached \/ SetCache \/ ClearCache \/ ClockAdvances

SpecCache == InitCache /\ [][NextCache]_vars

(* ------------------- what a run was served and took -------------------- *)

\* the key extractor of the running collector: repository name, commit sha
KeyOf(item) == IF call = "getRepositories" THEN item.name ELSE item.sha

PageKeys(result) == [i \in 1..Len(result.items) |-> KeyOf(result.items[i])]

KeySet(result) == {KeyOf(result.items[i]) : i \in 1..Len(result.items)}

\* the keys of the pages served before page n
KeysBefore(n) == UNION {KeySet(served[p]) : p \in 1..(n - 1)}

Min(S) == CHOOSE x \in S : \A y \in S : x <= y

\* index of the first item of `result` whose key is in prev or is carried by
\* an earlier item of the page; 0 when there is none
FirstRepeat(prev, result) ==
    LET keys == PageKeys(result)
    IN  IF Cardinality(prev \cup KeySet(result)) = Cardinality(prev) + Len(keys)
        THEN 0
        ELSE Min({i \in 1..Len(keys) :
                    keys[i] \in prev \/ \E j \in 1..(i - 1) : keys[j] = keys[i]})

\* index of the first commit of `result` that lacks a field getEmails reads
\* of it (author.login; commit.author or commit.committer of a commit of the
\* target); 0 when there is none, and for the items of other listings
FirstMalformed(result) ==
    IF call # "getEmails" THEN 0
    ELSE LET bad == {i \in 1..Len(result.items) :
                        /\ result.items[i].author # "null"
                        /\ \/ result.items[i].author = "undefined"
                           \/ /\ ToLowerCase(result.items[i].author) = ToLowerCase(username)
                              /\ ~(result.items[i].cauthor.ok /\ result.items[i].ccommitter.ok)}
         IN  IF bad = {} THEN 0 ELSE Min(bad)

FullPage(result) == result.t = "arr" /\ Len(result.items) = PageSize

ShortPage(result) == result.t = "arr" /\ Len(result.items) < PageSize

\* pages 1..n are full pages of pairwise distinct keys, of well-formed items
FreshFullPages(n) ==
    /\ \A p \in 1..n : FullPage(served[p]) /\ FirstMalformed(served[p]) = 0
    /\ Cardinality(KeysBefore(n + 1)) = n * PageSize

\* the keys of the items of pages 1..n, in page order then array order
RECURSIVE KeysUpTo(_)
KeysUpTo(n) == IF n = 0 THEN <<>> ELSE KeysUpTo(n - 1) \o PageKeys(served[n])

\* the keys of the returned repositories, in order
RepoNames == [i \in 1..Len(repositories) |-> repositories[i].name]

\* what the run has taken so far, as a sequence of keys (getRepositories) or
\* as their number (getEmails counts the commits it looked at)
Taken(keys) ==
    IF call = "getRepositories"
    THEN RepoNames = keys /\ repositoriesSeen = {keys[i] : i \in 1..Len(keys)}
    ELSE /\ seenCommits = {keys[i] : i \in 1..Len(keys)}
         /\ commitCounter = Len(keys) + 1

Pages(n) == [p \in 1..n |-> p]

(* -------------------------------- C1 ----------------------------------- *)

\* C1: when the upstream serves pages 1..n-1 with exactly 100 items each and
\* page n with k < 100 items, all keys pairwise distinct (the items being
\* repositories, or commits that carry the fields getEmails reads), the
\* collector requests exactly pages 1, 2, .., n, each once and in increasing
\* order, requests no page n+1 and returns all 100*(n-1)+k items; while only
\* full pages have been served it is about to request the next page.
C1_NormalWalk ==
    LET n == Len(served)
    IN  /\ (n >= 1 /\ FreshFullPages(n - 1) /\ ShortPage(served[n])
              /\ FirstMalformed(served[n]) = 0
              /\ FirstRepeat(KeysBefore(n), served[n]) = 0)
            => /\ pc = "returned"
               /\ fetched = Pages(n)
               /\ Taken(KeysUpTo(n))
               /\ Len(KeysUpTo(n)) = PageSize * (n - 1) + Len(served[n].items)
        /\ FreshFullPages(n)
            => /\ pc = "running"
               /\ pageCounter = n + 1
               /\ fetched = Pages(n)
               /\ Taken(KeysUpTo(n))

\* the worked example: 100 items, then 47 items => 2 requests, 147 items
C1_Witness ==
    /\ call = "getRepositories"
    /\ Len(served) = 2
    /\ FreshFullPages(1)
    /\ ShortPage(served[2]) /\ Len(served[2].items) = ShortLen
    /\ FirstRepeat(KeysBefore(2), served[2]) = 0
    /\ pc = "returned"
    /\ fetched = <<1, 2>>
    /\ Len(repositories) = PageSize + ShortLen

(* -------------------------------- C2 ----------------------------------- *)

\* C2: when getRepositories is served a page of exactly 100 items one of
\* which carries a name already seen in this run (on an earlier page, or
\* earlier on the same page), it keeps only the items of that page that
\* precede the first repeat, requests no further page and returns; if page 1
\* has 100 distinct names and the first item of page 2 repeats one, the
\* result is exactly the 100 items of page 1.
C2_DuplicateSentinel ==
    LET n == Len(served)
        d == FirstRepeat(KeysBefore(n), served[n])
    IN  (call = "getRepositories" /\ n >= 1 /\ FreshFullPages(n - 1)
           /\ FullPage(served[n]) /\ d > 0)
        => /\ pc = "returned"
           /\ fetched = Pages(n)
           /\ RepoNames = KeysUpTo(n - 1) \o SubSeq(PageKeys(served[n]), 1, d - 1)

\* page 1 has 100 distinct names, the first item of page 2 repeats one
C2_Witness ==
    /\ call = "getRepositories"
    /\ Len(served) = 2
    /\ FreshFullPages(1)
    /\ FullPage(served[2])
    /\ FirstRepeat(KeysBefore(2), served[2]) = 1
    /\ pc = "returned"
    /\ RepoNames = PageKeys(served[1])

(* -------------------------------- C3 ----------------------------------- *)

\* the items of page n the loop gets to: those before the first repeat, up
\* to and including the first malformed commit
LastTaken(n) ==
    LET d == FirstRepeat(KeysBefore(n), served[n])
        m == FirstMalformed(served[n])
        len == Len(served[n].items)
    IN  IF d > 0 /\ (m = 0 \/ d <= m) THEN d - 1
        ELSE IF m > 0 THEN m
        ELSE len

\* C3 as stated: for every page result that is an array of fewer than 100
\* items (repositories, or commits that carry the fields getEmails reads),
\* the collector consumes all items of that page - every item of the page
\* appears in the result - and then stops, whatever keys the items carry.
C3_ShortPageConsumedCompletely ==
    LET n == Len(served)
    IN  (n >= 1 /\ FreshFullPages(n - 1) /\ ShortPage(served[n])
           /\ FirstMalformed(served[n]) = 0)
        => /\ pc = "returned"
           /\ KeySet(served[n]) \subseteq
                 (IF call = "getRepositories" THEN repositoriesSeen ELSE seenCommits)
           /\ call = "getRepositories" =>
                 KeySet(served[n]) \subseteq {RepoNames[j] : j \in 1..Len(repositories)}

\* C3 (amended): for every page result that is an array of fewer than 100
\* items (repositories, or commits that carry the fields getEmails reads),
\* the collector consumes the items of the page that precede the first item
\* whose key was already seen in this run - all items of the page when no key
\* repeats - and then stops without requesting another page.
C3_ShortPagePrefixConsumed ==
    LET n == Len(served)
        d == FirstRepeat(KeysBefore(n), served[n])
        k == IF d > 0 THEN d - 1 ELSE Len(served[n].items)
    IN  (n >= 1 /\ FreshFullPages(n - 1) /\ ShortPage(served[n])
           /\ FirstMalformed(served[n]) = 0)
        => /\ pc = "returned"
           /\ fetched = Pages(n)
           /\ Taken(KeysUpTo(n - 1) \o SubSeq(PageKeys(served[n]), 1, k))

\* a short page whose third item repeats the key of its second: only the
\* first two of its 47 items are taken
C3_Witness ==
    /\ Len(served) = 1
    /\ ShortPage(served[1]) /\ Len(served[1].items) = ShortLen
    /\ FirstMalformed(served[1]) = 0
    /\ FirstRepeat({}, served[1]) = 3
    /\ pc = "returned"
    /\ call = "getEmails" /\ Cardinality(seenCommits) = 2

(* -------------------------------- C4 ----------------------------------- *)

\* the repositories of pages 1..n as getRepositories would push them
RECURSIVE ReposUpTo(_)
ReposUpTo(n) ==
    IF n = 0 THEN <<>>
    ELSE ReposUpTo(n - 1)
         \o (IF served[n].t = "arr"
             THEN [i \in 1..Len(served[n].items) |->
                     [name |-> served[n].items[i].name, fork |-> served[n].items[i].fork]]
             ELSE <<>>)

\* C4: for every sequence of upstream page results the list getRepositories
\* has built is deduplicated and ordered: no two of its items have the same
\* name, and it is a prefix of the concatenation of the fetched pages (page
\* order, then array order within a page), hence a subsequence of it that
\* keeps the order.
C4_DeduplicatedOrdered ==
    call = "getRepositories"
    => /\ Cardinality({repositories[i].name : i \in 1..Len(repositories)})
            = Len(repositories)
       /\ Len(repositories) <= Len(ReposUpTo(Len(served)))
       /\ repositories = SubSeq(ReposUpTo(Len(served)), 1, Len(repositories))

\* two full pages, the last item of the second repeating a name of the first
C4_Witness ==
    /\ call = "getRepositories"
    /\ Len(served) = 2
    /\ FullPage(served[1]) /\ FullPage(served[2])
    /\ FirstRepeat(KeysBefore(2), served[2]) = PageSize
    /\ pc = "returned"
    /\ Len(repositories) = 2 * PageSize - 1

(* -------------------------------- C5 ----------------------------------- *)

\* an object with a message property or a truthy error property, or any
\* other value that is not an array
ErrorShaped(result) == result.t # "arr"

\* C5 as stated: when page p is answered by an error-shaped result (an
\* object with a message field or an error field, or any non-array value),
\* getRepositories and getEmails consume nothing from it, request no page
\* after p and return exactly what pages 1..p-1 gave (nothing when p = 1).
C5_ErrorPageReturnsPartial ==
    LET n == Len(served)
    IN  (n >= 1 /\ FreshFullPages(n - 1) /\ ErrorShaped(served[n]))
        => /\ pc = "returned"
           /\ fetched = Pages(n)
           /\ Taken(KeysUpTo(n - 1))

(* -------------------------------- C6 ----------------------------------- *)

\* C6 as stated: whatever value the transport returns for a page (null, a
\* primitive, an error object, an array whose commits lack author.login or
\* commit.author / commit.committer), getRepositories and getEmails end by
\* returning a result and never by throwing.
C6_NoFaultEscapes == pc # "thrown"

(* -------------------------------- C7 ----------------------------------- *)

\* the commits of page p the loop of getEmails gets to
TakenCommits(p) ==
    IF served[p].t = "arr"
    THEN {served[p].items[i] : i \in 1..LastTaken(p)}
    ELSE {}

AllTakenCommits == UNION {TakenCommits(p) : p \in 1..Len(served)}

\* the e-mails of the taken commits whose account is the target (a commit
\* that lacks commit.author or commit.committer records none)
TargetEmails ==
    UNION {{c.cauthor.email, c.ccommitter.email} \ {EEmpty} :
             c \in {x \in AllTakenCommits :
                      /\ x.author \notin {"null", "undefined"}
                      /\ ToLowerCase(x.author) = ToLowerCase(username)
                      /\ x.cauthor.ok /\ x.ccommitter.ok}}

\* the shas that only commits without author carry
AuthorlessShas ==
    {c.sha : c \in {x \in AllTakenCommits : x.author = "null"}}
    \ {c.sha : c \in {x \in AllTakenCommits : x.author # "null"}}

\* C7 as stated: a commit whose author is null never adds its sha to the
\* seen set of getEmails (so it can never trigger the duplicate stop).
C7_AuthorlessNeverSeen ==
    call = "getEmails" => seenCommits \cap AuthorlessShas = {}

\* C7 (amended): in getEmails a commit whose author is null takes part in
\* the duplicate check like every other commit - its sha is tested against
\* the seen set and then added to it, so a later item repeating that sha
\* stops the walk - and only then is skipped: it contributes no e-mail, and
\* the items following it on the page are still processed.
C7_AuthorlessKeyedThenSkipped ==
    call = "getEmails"
    => /\ seenCommits = {c.sha : c \in AllTakenCommits}
       /\ commitCounter = 1 + Cardinality(seenCommits)
       /\ MapKeys(newEmails) = TargetEmails
       /\ \A n \in 1..Len(served) :
            (served[n].t = "arr" /\ FirstRepeat(KeysBefore(n), served[n]) > 0
               /\ LastTaken(n) < FirstRepeat(KeysBefore(n), served[n]))
            => n = Len(served) /\ pc # "running"

\* page 1: 100 commits, the second without author, all taken; page 2: its
\* first commit repeats the sha of that commit and stops the walk
C7_Witness ==
    /\ call = "getEmails"
    /\ Len(served) = 2
    /\ FreshFullPages(1)
    /\ served[1].items[2].author = "null"
    /\ served[2].t = "arr" /\ Len(served[2].items) > 0
    /\ served[2].items[1].sha = served[1].items[2].sha
    /\ pc = "returned"
    /\ Cardinality(seenCommits) = PageSize
    /\ served[1].items[2].sha \in seenCommits

(* -------------------------------- C8 ----------------------------------- *)

PlainRuns == {gists, contributors, repos, starred, events}

ItemNames(items) == [i \in 1..Len(items) |-> items[i].name]

\* C8 as stated: on the same sequence of page results the gist, contributor,
\* detailed-repository, starred and event collectors request the same pages
\* and return the same item sequence as getRepositories, the stop at a
\* repeated key on a full page included.
C8_SameStateMachine ==
    \A run \in PlainRuns :
        (pc # "running" /\ run.pc = "returned")
        => run.asked = fetched /\ ItemNames(run.items) = RepoNames

\* what a collector without a seen set does: it requests pages 1, 2, .. in
\* order, appends every item of every array it is served, and returns after
\* the first result that is not an array or has fewer than 100 items, or
\* (starred, events) after page `cap`
PlainWalk(run, cap) ==
    LET k == Len(run.asked)
    IN  /\ run.asked = Pages(k)
        /\ run.items = ReposUpTo(k)
        /\ run.pc = "returned"
            <=> (k >= 1 /\ (served[k].t # "arr" \/ Len(served[k].items) < PageSize
                            \/ k = cap))
        /\ run.pc = "running" => run.page = k + 1

\* page p is an error object getRepositories can read, or an array none of
\* whose items repeats a key
Plain(p) ==
    \/ served[p].t = "obj" /\ served[p].message # "nonstring"
    \/ served[p].t = "arr" /\ FirstRepeat(KeysBefore(p), served[p]) = 0

\* on such pages, and short of the page cap, the run and getRepositories
\* request the same pages and return the same items
Agrees(run, cap) ==
    LET k == Len(run.asked)
        n == Len(fetched)
    IN  (/\ pc # "running" /\ run.pc = "returned"
         /\ \A p \in 1..(IF k > n THEN k ELSE n) : Plain(p)
         /\ ~(k = cap /\ FullPage(served[k])))
        => /\ pc = "returned"
           /\ run.asked = fetched
           /\ ItemNames(run.items) = RepoNames

\* C8 (amended): the gist, contributor and detailed-repository collectors
\* are a simpler loop than getRepositories: no key is extracted and nothing
\* is deduplicated; they append every item of every array page and advance
\* exactly when the page is full (the starred and event collectors
\* likewise, for at most 2 and 3 pages).  They request the same pages and
\* return the same item sequence as getRepositories only on runs whose page
\* results are error objects or arrays without a repeated key, and that end
\* before the page cap; on a full page that repeats a key they keep the
\* whole page and go on.
C8_PlainCollectors ==
    /\ PlainWalk(gists, 0) /\ Agrees(gists, 0)
    /\ PlainWalk(contributors, 0) /\ Agrees(contributors, 0)
    /\ PlainWalk(repos, 0) /\ Agrees(repos, 0)
    /\ PlainWalk(starred, StarredMaxPages) /\ Agrees(starred, StarredMaxPages)
    /\ PlainWalk(events, EventsMaxPages) /\ Agrees(events, EventsMaxPages)

\* page 1 is full and its last item repeats a name: getRepositories returns
\* 99 items after one request, the others take all 100 and request page 2,
\* which has 99 items
C8_Witness ==
    /\ pc = "returned"
    /\ FullPage(served[1]) /\ FirstRepeat({}, served[1]) = PageSize
    /\ fetched = <<1>> /\ Len(repositories) = PageSize - 1
    /\ gists.pc = "returned" /\ gists.asked = <<1, 2>>
    /\ Len(gists.items) = 2 * PageSize - 1
    /\ repos.pc = "returned" /\ repos.items = gists.items
    /\ starred.pc = "returned"
    /\ events.pc = "returned" /\ events.items = gists.items

(* --------------------------------- C9 ---------------------------------- *)

\* C9: the repository loop of runGithubRecon calls getEmails for the selected
\* repositories one at a time and in the selected order: the calls made so
\* far are the first entries of repoNames, a call is made only when every
\* earlier call has ended (by returning, whatever it reported, or by
\* throwing), and when the run is over there has been exactly one call for
\* every entry of repoNames.
C9_ScanContinues ==
    /\ Len(started) <= Len(repoNames)
    /\ started = SubSeq(repoNames, 1, Len(started))
    /\ idx = Len(ended)
    /\ Len(started) = Len(ended) + (IF at = "scanning" THEN 1 ELSE 0)
    /\ at = "done" => started = repoNames /\ Len(ended) = Len(repoNames)

\* the first call of getEmails ended on the rate limit, the last one threw,
\* and the run is over with a call made for each of the selected
\* repositories
C9_Witness ==
    /\ at = "done"
    /\ Len(repoNames) >= 2
    /\ ended[1] = "rate_limit"
    /\ ended[Len(ended)] = "thrown"
    /\ started = repoNames

(* --------------------------------- C10 --------------------------------- *)

\* the value the request for the p-th URL resolved with
ResponseTo(p) ==
    (CHOOSE e \in {resolved[j] : j \in 1..Len(resolved)} : e.pos = p).response

\* C10: when parallelRequests returns, results has as many elements as urls,
\* and its i-th element is the value the request for the i-th URL resolved
\* with, for every concurrency from 1 to 10 and whatever order the requests
\* of a window resolved in.
C10_OrderPreserved ==
    batchAt = "returned" =>
        /\ Len(results) = Len(urls)
        /\ \A p \in 1..Len(urls) :
              /\ Cardinality({j \in 1..Len(resolved) : resolved[j].pos = p}) = 1
              /\ results[p] = ResponseTo(p)
              /\ results[p].url = urls[p]

\* a call has returned in which the last request of a window resolved
\* first, and a window was cut short by the end of the list
C10_Witness ==
    /\ batchAt = "returned"
    /\ Len(urls) = MaxUrls
    /\ concurrency = 2
    /\ resolved[1].pos = 2
    /\ resolved[1].response.body # resolved[2].response.body

(* --------------------------------- C11 --------------------------------- *)

\* the requests issued and not yet resolved
Outstanding ==
    {issued[j] : j \in 1..Len(issued)} \ {resolved[j].pos : j \in 1..Len(resolved)}

\* the window of the p-th URL, counted from 0
WindowOf(p) == (p - 1) \div concurrency

\* C11: in parallelRequests at most `concurrency` requests are outstanding at
\* any moment, the outstanding requests all belong to one window, and every
\* request of an earlier window than an issued request's has been issued
\* before it and has resolved unless it is of the window being awaited.
C11_WindowBarrier ==
    /\ Cardinality(Outstanding) <= concurrency
    /\ \A p, q \in Outstanding : WindowOf(p) = WindowOf(q)
    /\ \A j \in 1..Len(issued) : issued[j] = j
    /\ \A p \in Outstanding :
          \A q \in 1..Len(urls) : WindowOf(q) < WindowOf(p) => q \notin Outstanding
    /\ \A p \in 1..Len(issued) :
          \A q \in 1..Len(issued) :
              WindowOf(q) < WindowOf(p) /\ p \in Outstanding =>
                  \E j \in 1..Len(resolved) : resolved[j].pos = q

\* the second window of a call with concurrency 2 is outstanding, after the
\* requests of the first window resolved in reverse
C11_Witness ==
    /\ concurrency = 2
    /\ Len(urls) = MaxUrls
    /\ Outstanding = {3}
    /\ resolved[1].pos = 2

(* --------------------------------- C12 --------------------------------- *)

\* Math.ceil(n / d) for a natural n and a positive d
CeilDiv(n, d) == (n + d - 1) \div d

\* C12: when a progress callback is given, parallelRequests calls it once
\* after each window: the k-th call carries (min(k * c, N), N), the completed
\* values increase strictly, and when parallelRequests returns there have
\* been ceil(N / c) calls, the last carrying (N, N), and none when N = 0.
C12_ProgressReported ==
    LET N == Len(urls)
        c == concurrency
    IN  /\ ~onProgress => progress = <<>>
        /\ onProgress =>
              /\ \A k \in 1..Len(progress) :
                    progress[k] = <<(IF k * c < N THEN k * c ELSE N), N>>
              /\ \A k \in 1..(Len(progress) - 1) : progress[k][1] < progress[k + 1][1]
              /\ Len(progress) = CeilDiv(batchI, c)
              /\ batchAt = "returned" =>
                    /\ Len(progress) = CeilDiv(N, c)
                    /\ N > 0 => progress[Len(progress)] = <<N, N>>
                    /\ N = 0 => progress = <<>>

\* a call with a callback has returned after two windows, the second one
\* cut short by the end of the list
C12_Witness ==
    /\ onProgress
    /\ batchAt = "returned"
    /\ Len(urls) = MaxUrls
    /\ concurrency = MaxUrls - 1
    /\ Len(progress) = 2

(* --------------------------------- C13 --------------------------------- *)

\* what the push date adds to the score calculateRepoPriority returned: the
\* score less the score of the same repository without pushed_at
RecencyAdded ==
    scOut - calculateRepoPriority([scArgs.repo EXCEPT !.pushed = FALSE])

StarsAdded ==
    scOut - calculateRepoPriority([scArgs.repo EXCEPT !.stargazers_count = 0])

Unscored(x) ==
    Repo(x.name, x.fork, x.archived, x.stargazers_count, x.pushed, x.age,
         x.description, x.has_issues)

\* out holds each element of list once (the j-th element of list is named
\* j), with a priority attached and nothing else changed
PermutationOf(out, list) ==
    /\ Len(out) = Len(list)
    /\ {out[j].name : j \in 1..Len(out)} = 1..Len(list)
    /\ \A j \in 1..Len(out) : Unscored(out[j]) = list[out[j].name]

\* C15: sortReposByPriority returns the repositories of its input, each
\* once, in non-increasing order of their score, two repositories of equal
\* score in the order they had in the input; the priority of an element is
\* its score; the list handed over and its elements are as they were.
C15_StableDescending ==
    scFn = "sortReposByPriority" /\ scDone =>
        /\ PermutationOf(scOut, scArgs.repos)
        /\ \A j \in 1..Len(scOut) :
              scOut[j].priority = calculateRepoPriority(scArgs.repos[scOut[j].name])
        /\ \A j \in 1..(Len(scOut) - 1) :
              /\ scOut[j].priority >= scOut[j + 1].priority
              /\ scOut[j].priority = scOut[j + 1].priority =>
                    scOut[j].name < scOut[j + 1].name
        /\ scRepos = scArgs.repos

\* a list of three has been sorted: its last repository comes first, and
\* the two others, of equal score, follow in their order
C15_Witness ==
    /\ scFn = "sortReposByPriority"
    /\ scDone
    /\ Len(scOut) = 3
    /\ scOut[1].name = 3
    /\ scOut[1].priority > scOut[2].priority
    /\ scOut[2].priority = scOut[3].priority
    /\ Unscored(scOut[2]) # [Unscored(scOut[3]) EXCEPT !.name = 1]

(* --------------------------------- C16 --------------------------------- *)

\* C16 as stated: for every maxRepos that is given, 0 included, filterRepos
\* returns at most maxRepos repositories.  It does not hold: maxRepos = 0 is
\* falsy at line 136 and nothing is cut.
C16_AtMostMaxCount ==
    scFn = "filterRepos" /\ scDone /\ scArgs.options.maxRepos # NoNumber =>
        Len(scOut) <= scArgs.options.maxRepos

(* --------------------------------- C17 --------------------------------- *)

\* C17 as stated: every repository filterRepos returns is one of the input,
\* is no fork unless includeForks, is not archived unless includeArchived,
\* has at least minStars stars and, when maxAge is given, has a pushed_at
\* that is at most maxAge months old.  It does not hold: a repository
\* without pushed_at passes the age filter, and maxAge = 0 is falsy at line
\* 123 and filters nothing.
C17_HardPredicates ==
    scFn = "filterRepos" /\ scDone =>
        LET o == scArgs.options
        IN  \A j \in 1..Len(scOut) :
                /\ scOut[j].name \in 1..Len(scArgs.repos)
                /\ Unscored(scOut[j]) = scArgs.repos[scOut[j].name]
                /\ scOut[j].fork => o.includeForks
                /\ scOut[j].archived => o.includeArchived
                /\ scOut[j].stargazers_count >= o.minStars
                /\ o.maxAge # NoNumber =>
                      scOut[j].pushed /\ scOut[j].age <= o.maxAge * MonthDays

(* --------------------------------- C18 --------------------------------- *)

\* the first n elements of list, all of them when no n is given
FirstN(list, n) ==
    IF n = NoNumber \/ n >= Len(list) THEN list ELSE SubSeq(list, 1, n)

\* C18 as stated: filterRepos returns the first maxRepos entries of the
\* priority-sorted list of the repositories that pass the filter (all of
\* them when maxRepos is not given).  It does not hold for maxRepos = 0,
\* where nothing is cut (C16).
C18_TruncatedAfterSort ==
    scFn = "filterRepos" /\ scDone =>
        scOut = FirstN(sortReposByPriority(FilterSeq(scArgs.repos, scArgs.options)),
                       scArgs.options.maxRepos)

(* --------------------------------- C19 --------------------------------- *)

\* the option f of a call of estimateApiCalls, `default` when it is not given
OptionOr(f, default) ==
    IF f \in DOMAIN scArgs.options THEN scArgs.options[f] ELSE default

\* 1 for a request that is made
One(made) == IF made THEN 1 ELSE 0

\* the formula of C19 for a repoCount of n
Estimate(n) ==
    One(OptionOr("fetchProfile", TRUE)) + One(OptionOr("fetchOrgs", TRUE))
    + One(OptionOr("fetchKeys", TRUE)) + One(OptionOr("fetchGists", FALSE))
    + CeilDiv(n, 100) + n * CeilDiv(OptionOr("avgCommitsPerRepo", 50), 100)

\* C19: estimateApiCalls returns 1 for each of profile, organizations and
\* keys (on unless switched off) and gists (off unless switched on), plus
\* ceil(repoCount / 100), plus repoCount * ceil(avgCommitsPerRepo / 100) with
\* avgCommitsPerRepo 50 unless given; 256 for 250 repositories and 50
\* commits; and no less than for a smaller repoCount.
C19_EstimateFormula ==
    scFn = "estimateApiCalls" /\ scDone =>
        /\ scOut = Estimate(scArgs.repoCount)
        /\ scArgs.repoCount = 250 /\ scArgs.options = [avgCommitsPerRepo |-> 50] =>
              scOut = 256
        /\ \A n \in RepoCounts :
              n <= scArgs.repoCount => estimateApiCalls(n, scArgs.options) <= scOut

\* the estimate for 250 repositories of 50 commits has been returned: 256
C19_Witness ==
    /\ scFn = "estimateApiCalls"
    /\ scDone
    /\ scArgs.repoCount = 250
    /\ scArgs.options = [avgCommitsPerRepo |-> 50]
    /\ scOut = 256

(* --------------------------------- C20 --------------------------------- *)

\* C20: generateScanStrategy returns canComplete true exactly when the
\* estimate of estimateApiCalls is at most the remaining quota; the
\* recommendations are none when canComplete is true, and limit_repos,
\* use_token, skip_forks in this order when it is false.
C20_ScanStrategy ==
    scFn = "generateScanStrategy" /\ scDone =>
        /\ scOut.estimatedCalls = Estimate(scArgs.repoCount)
        /\ scOut.canComplete <=> scOut.estimatedCalls <= scArgs.rateLimitRemaining
        /\ scOut.canComplete => scOut.recommendations = <<>>
        /\ ~scOut.canComplete =>
              [j \in 1..Len(scOut.recommendations) |-> scOut.recommendations[j].type]
                  = <<"limit_repos", "use_token", "skip_forks">>

\* a strategy has been returned for 250 repositories and a quota of 60:
\* the scan cannot complete and three recommendations are made
C20_Witness ==
    /\ scFn = "generateScanStrategy"
    /\ scDone
    /\ scArgs.repoCount = 250
    /\ scArgs.rateLimitRemaining = 60
    /\ ~scOut.canComplete
    /\ Len(scOut.recommendations) = 3

(* --------------------------------- C21 --------------------------------- *)

\* the calls one more repository costs: the pages of its commits
PerRepoCallCost == CeilDiv(OptionOr("avgCommitsPerRepo", 50), 100)

\* C21 as stated: when the estimate does not fit, the limit_repos
\* recommendation carries floor((remaining - 10) / perRepoCallCost), where
\* perRepoCallCost is what one more repository costs, without the one-off
\* calls.  It does not hold: the code divides by estimateApiCalls(1, options),
\* which counts the profile, organization, key, gist and listing calls too.
C21_SafeRepoCount ==
    scFn = "generateScanStrategy" /\ scDone /\ ~scOut.canComplete
            /\ PerRepoCallCost > 0 =>
        scOut.recommendations[1].value =
            (scArgs.rateLimitRemaining - 10) \div PerRepoCallCost

(* --------------------------------- C23 --------------------------------- *)

\* the number of "@" characters of an address
CountAt(email) == Cardinality({j \in 1..Len(email) : email[j] = "@"})

\* C23: classifyEmail returns isValid true for an address with exactly one
\* "@" and false for an address with none or with two or more.
C23_ValidIffOneAt ==
    scFn = "classifyEmail" /\ scDone =>
        (scOut.isValid <=> CountAt(scArgs.email) = 1)

\* an address with two "@" has been classified: it is not valid
C23_Witness ==
    /\ scFn = "classifyEmail"
    /\ scDone
    /\ CountAt(scArgs.email) = 2
    /\ ~scOut.isValid

(* --------------------------------- C24 --------------------------------- *)

\* the classification the precedence noreply, disposable, personal, work
\* gives an address local@domain, its domain lower-cased
Precedence(email) ==
    LET parts == Split(email)
        domain == ToLower(parts[2])
    IN  IF MatchesNoreply(parts) THEN "noreply"
        ELSE IF domain \in disposable THEN "disposable"
        ELSE IF domain \in commonPersonalDomains THEN "personal"
        ELSE "work"

\* C24: a valid address is classified by the first rule that matches, in
\* the order noreply pattern, disposable domain, personal webmail domain,
\* else work, the domain compared in lower case; isNoreply holds exactly
\* when the classification is noreply and isDisposable exactly when it is
\* disposable.  noreply@domain.com and noreply@mailinator.com are noreply,
\* user@mailinator.com is disposable, user@gmail.com and User@Gmail.com are
\* personal, user@acme-corp.io is work.
C24_Precedence ==
    scFn = "classifyEmail" /\ scDone =>
        LET e == scArgs.email
        IN  /\ scOut.isNoreply <=> scOut.classification = "noreply"
            /\ scOut.isDisposable <=> scOut.classification = "disposable"
            /\ scOut.isValid =>
                  /\ scOut.classification = Precedence(e)
                  /\ scOut.domain = ToLower(Split(e)[2])
            /\ e = <<"noreply", "@", "domain.com">> => scOut.classification = "noreply"
            /\ e = <<"noreply", "@", "mailinator.com">> =>
                  scOut.classification = "noreply"
            /\ e = <<"user", "@", "mailinator.com">> =>
                  scOut.classification = "disposable"
            /\ e = <<"User", "@", "Mailinator.com">> =>
                  scOut.classification = "disposable"
            /\ e = <<"user", "@", "gmail.com">> => scOut.classification = "personal"
            /\ e = <<"User", "@", "Gmail.com">> => scOut.classification = "personal"
            /\ e = <<"user", "@", "acme-corp.io">> => scOut.classification = "work"

\* an address that matches a noreply pattern on a disposable domain has
\* been classified noreply
C24_Witness ==
    /\ scFn = "classifyEmail"
    /\ scDone
    /\ scArgs.email = <<"noreply", "@", "mailinator.com">>
    /\ scOut.classification = "noreply"
    /\ ~scOut.isDisposable

(* --------------------------------- C25 --------------------------------- *)

\* C25 as stated: for an address that has not exactly one "@" classifyEmail
\* returns a result that is not valid and carries none of the
\* classifications personal, work, noreply, disposable.  It does not hold:
\* the result keeps the classification personal it was created with.
C25_MalformedUnclassified ==
    scFn = "classifyEmail" /\ scDone /\ CountAt(scArgs.email) # 1 =>
        /\ ~scOut.isValid
        /\ scOut.classification \notin {"personal", "work", "noreply", "disposable"}

(* --------------------------------- C22 --------------------------------- *)

\* the repositories to scan, from the listing and the options alone
Unadvised ==
    LET kept == SelectSeq(repositories,
                          LAMBDA repo : /\ saveFork \/ ~repo.fork
                                        /\ smart => ~repo.archived)
        ordered == IF smart THEN sortReposByPriority(kept) ELSE kept
        chosen == IF Truthy(optMaxRepos) /\ optMaxRepos < Len(ordered)
                  THEN SubSeq(ordered, 1, optMaxRepos)
                  ELSE ordered
    IN  [j \in 1..Len(chosen) |-> chosen[j].name]

\* the calls a run makes up to the position it is at, from the options, the
\* selection and the position alone; every modelled answer to getEmails is
\* a short page or no page, so that each repository takes one call
HeadCalls ==
    <<ApiCall("getRateLimit", 0, 0), ApiCall("getUserProfile", 0, 0),
      ApiCall("getUserOrganizations", 0, 0), ApiCall("getUserKeys", 0, 0),
      ApiCall(IF smart THEN "getRepositoriesDetailed" ELSE "getRepositories", 0, 1)>>

HeadCallsMade ==
    CASE at = "start" -> 0
      [] at = "profile" -> 1
      [] at \in {"orgs", "notFound"} -> 2
      [] at = "rejected" /\ userInfo.message = "nonstring" -> 2
      [] at = "keys" -> 3
      [] at = "listing" -> 4
      [] OTHER -> 5

ScansCalled ==
    IF at = "scanning" /\ fetched = <<>> THEN Len(started) - 1 ELSE Len(started)

DeepCallsMade ==
    (IF at \in {"events", "readme"} \/ (at = "done" /\ deep)
     THEN <<ApiCall("getUserGists", 0, 1)>> ELSE <<>>)
    \o (IF at = "readme" \/ (at = "done" /\ deep)
        THEN <<ApiCall("getUserEvents", 0, 1)>> ELSE <<>>)
    \o [j \in 1..readmeAt |-> ApiCall("getRepoReadme", Unadvised[j], 0)]

ExpectedCalls ==
    SubSeq(HeadCalls, 1, HeadCallsMade)
    \o [j \in 1..ScansCalled |-> ApiCall("getEmails", Unadvised[j], 1)]
    \o DeepCallsMade

\* the addresses of the identity map that the options let through
Reportable ==
    SelectSeq([j \in 1..Len(emailsToName) |-> emailsToName[j].key],
              LAMBDA email : ~((skipNoreply \/ smart)
                               /\ classifyEmail(email).isNoreply))

\* C22: the planner only advises.  The repositories selected, the
\* repositories scanned, the calls made after the rate-limit check and the
\* e-mail report of the returned result are what the options, the listing
\* and the answers of the upstream determine; what the rate-limit check
\* found and warned about has no part in them.
C22_PlannerOnlyAdvises ==
    /\ at \in {"loop", "scanning", "events", "readme", "done"} =>
          /\ repoNames = Unadvised
          /\ started = SubSeq(Unadvised, 1, Len(started))
    /\ at \in {"events", "readme", "done"} => started = Unadvised
    /\ apiCalls = ExpectedCalls
    /\ at = "done" =>
          /\ reconResult.leaked_emails = Reportable
          /\ reconResult.leaked_emails =
                [j \in 1..Len(reconResult.email_details) |->
                    reconResult.email_details[j].email]

\* a smart run that was told it cannot complete and to limit the scan to
\* fewer repositories than it went on to scan, and that reported addresses
C22_Witness ==
    /\ at = "done"
    /\ smart
    /\ AdvisedCount # NoNumber
    /\ Len(started) > AdvisedCount
    /\ Len(started) = 2
    /\ \E j \in 1..Len(warned) : warned[j].type = "low_quota"
    /\ reconResult.leaked_emails # <<>>

\* the repository loop has finished the repository at position idx, and
\* getEmails returned for it (newEmails still holds the Map it returned)
Merged == at = "loop" /\ idx >= 1 /\ ended[idx] # "thrown"

SnapshotEmails(res) ==
    {res.leaked_emails[j] : j \in 1..Len(res.leaked_emails)}
        \cup {res.email_details[j].email : j \in 1..Len(res.email_details)}

\* C26: an address that is not valid (no "@", or more than one) is a key of
\* no identity map and is in leaked_emails and email_details of no snapshot
\* and of no result.
C26_InvalidNeverRecorded ==
    /\ \A j \in 1..Len(emailsToName) : CountAt(emailsToName[j].key) = 1
    /\ \A e \in SnapshotEmails(reconResult) : CountAt(e) = 1
    /\ \A k \in 1..Len(saved) : \A e \in SnapshotEmails(saved[k]) : CountAt(e) = 1

Aggregate(count) ==
    [emailsToName |-> emailsToName, emailsToRepo |-> emailsToRepo,
     emailSources |-> emailSources, newEmailsCount |-> count]

\* C27: merging is idempotent: folding the Map of a repository into the
\* identity maps a second time leaves the three maps as they are and finds no
\* new address, and mergeEmailMaps(t, s) applied twice gives what it gives
\* applied once.
C27_MergeIdempotent ==
    Merged =>
        /\ MergeEmails(Aggregate(0), newEmails, 1, repoNames[idx]) = Aggregate(0)
        /\ LET once == mergeEmailMaps(emailsToName, newEmails)
           IN  mergeEmailMaps(once, newEmails) = once

\* a second repository returned a Map of two addresses or more, one of them
\* known from the first repository
C27_Witness ==
    /\ Merged
    /\ idx = 2
    /\ Len(newEmails) >= 2
    /\ Len(emailsToName) >= 2
    /\ \E j \in 1..Len(newEmails) :
          /\ MapHas(emailsToName, newEmails[j].key)
          /\ MapGet(emailsToRepo, newEmails[j].key) = {repoNames[1], repoNames[2]}
    /\ repoNames[1] # repoNames[2]

\* C28: with the noreply filter on, the noreply addresses getEmails returned
\* are still held in the identity maps (exclusion is a filter of the view),
\* and updateResultEmails leaves the maps as they are.
C28_ExclusionIsAView ==
    (Merged /\ FilterNoreply) =>
        \A j \in 1..Len(newEmails) :
            classifyEmail(newEmails[j].key).isNoreply =>
                /\ MapHas(emailsToName, newEmails[j].key)
                /\ MapHas(emailsToRepo, newEmails[j].key)
                /\ MapHas(emailSources, newEmails[j].key)

(* --------------------------------- C29 --------------------------------- *)

IsNoreplyAddress(email) == classifyEmail(email).classification = "noreply"

\* C29: with smart or skipNoreply on, no address classified noreply is in
\* leaked_emails or email_details of any snapshot handed to the writer or of
\* the result, whether it came with a commit, an event or a README; with
\* both off, the noreply addresses getEmails returned are held with the
\* source "commit", and the returned result reports every address held.
C29_NoreplyExcluded ==
    /\ (smart \/ skipNoreply) =>
          /\ \A e \in SnapshotEmails(reconResult) : ~IsNoreplyAddress(e)
          /\ \A k \in 1..Len(saved) :
                \A e \in SnapshotEmails(saved[k]) : ~IsNoreplyAddress(e)
    /\ (~smart /\ ~skipNoreply) =>
          /\ Merged =>
                \A j \in 1..Len(newEmails) :
                    IsNoreplyAddress(newEmails[j].key) =>
                        /\ MapHas(emailsToName, newEmails[j].key)
                        /\ "commit" \in MapGet(emailSources, newEmails[j].key)
          /\ at = "done" =>
                \A j \in 1..Len(emailsToName) :
                    /\ \E k \in 1..Len(reconResult.leaked_emails) :
                          reconResult.leaked_emails[k] = emailsToName[j].key
                    /\ \E k \in 1..Len(reconResult.email_details) :
                          reconResult.email_details[k].email = emailsToName[j].key

\* a deep run with the filter on has returned: the last repository's commits
\* carried a noreply address, and an event and a README that carry one next
\* to the work address were merged; addresses were reported
C29_Witness ==
    /\ at = "done"
    /\ smart \/ skipNoreply
    /\ deep
    /\ \E j \in 1..Len(newEmails) : IsNoreplyAddress(newEmails[j].key)
    /\ MapHas(emailSources, EWork)
    /\ {"event", "readme"} \subseteq MapGet(emailSources, EWork)
    /\ reconResult.leaked_emails # <<>>
    /\ saved # <<>>


(* --------------------------------- C30 --------------------------------- *)

\* C30: after each repository of the loop the result carries the view of the
\* identity maps as merged so far, its scan progress names that repository,
\* and the writer was called with that result.
C30_ResultFollowsEachRepository ==
    (at = "loop" /\ idx >= 1) =>
        /\ reconResult.scan_progress = Progress(idx, Len(repoNames))
        /\ reconResult = updateResultEmails(reconResult, emailsToName,
                                            emailsToRepo, emailSources,
                                            FilterNoreply)
        /\ saved # <<>>
        /\ saved[Len(saved)] = reconResult

(* --------------------------------- C31 --------------------------------- *)

DetailEmails(res) ==
    [j \in 1..Len(res.email_details) |-> res.email_details[j].email]

\* the view of the identity maps as they are now
ViewNow ==
    LET kept == SelectSeq(emailsToName,
                          LAMBDA entry : ~((skipNoreply \/ smart)
                                           /\ classifyEmail(entry.key).isNoreply))
    IN  [emails |-> [j \in 1..Len(kept) |-> kept[j].key],
         names |-> [j \in 1..Len(kept) |-> kept[j].value],
         repositories |-> [j \in 1..Len(kept) |->
                              IF MapHas(emailsToRepo, kept[j].key)
                              THEN MapGet(emailsToRepo, kept[j].key)
                              ELSE {}]]

\* the result was updated for the repository the loop has just finished
JustUpdated ==
    at = "loop" /\ idx >= 1 /\ reconResult.scan_progress = Progress(idx, Len(repoNames))

\* C31: every snapshot handed to the writer, and the result, is consistent:
\* leaked_emails is the sequence of the email fields of email_details, in
\* the same order; a snapshot written for a repository is the result itself,
\* and both lists show the identity maps as they are when that repository's
\* merge is over, never a state in the middle of a merge.
C31_SnapshotConsistent ==
    /\ reconResult.leaked_emails = DetailEmails(reconResult)
    /\ \A k \in 1..Len(saved) : saved[k].leaked_emails = DetailEmails(saved[k])
    /\ JustUpdated =>
          /\ saved # <<>>
          /\ saved[Len(saved)] = reconResult
          /\ reconResult.leaked_emails = ViewNow.emails
          /\ \A j \in 1..Len(reconResult.email_details) :
                /\ reconResult.email_details[j].names = ViewNow.names[j]
                /\ reconResult.email_details[j].repositories =
                      ViewNow.repositories[j]
    /\ at = "done" =>
          /\ reconResult.leaked_emails = ViewNow.emails
          /\ \A j \in 1..Len(reconResult.email_details) :
                reconResult.email_details[j].names = ViewNow.names[j]

\* the second repository brought a new address: the snapshot written for it
\* holds two addresses or more, one of them with both repositories
C31_Witness ==
    /\ JustUpdated
    /\ idx = 2
    /\ Len(saved[Len(saved)].leaked_emails) >= 2
    /\ \E j \in 1..Len(reconResult.email_details) :
          Cardinality(reconResult.email_details[j].repositories) = 2

(* --------------------------------- C32 --------------------------------- *)

\* the (e-mail, name) pairs a Map from e-mail to names holds
Pairs(emails) ==
    UNION {{<<emails[j].key, name>> : name \in emails[j].value} :
             j \in 1..Len(emails)}

\* the taken commits of the account the scan is run for, the letter case of
\* the login aside, that carry commit.author and commit.committer
TargetCommits ==
    {c \in AllTakenCommits :
        /\ c.author \notin {"null", "undefined"}
        /\ ToLowerCase(c.author) = ToLowerCase(username)
        /\ c.cauthor.ok /\ c.ccommitter.ok}

\* C32: getEmails attributes identities to the target only.  The Map holds
\* exactly the (e-mail, name) pairs of the authors and of the committers,
\* with a non-empty e-mail, of the commits whose account login equals the
\* requested username up to letter case; a commit of another login adds
\* nothing.
C32_OnlyTargetAttributed ==
    call = "getEmails" =>
        Pairs(newEmails) =
            {<<c.cauthor.email, c.cauthor.name>> :
                c \in {x \in TargetCommits : x.cauthor.email # EEmpty}}
            \cup {<<c.ccommitter.email, c.ccommitter.name>> :
                    c \in {x \in TargetCommits : x.ccommitter.email # EEmpty}}

\* getEmails returned after commits of the target under a login written in
\* another case, with different author and committer, and commits of
\* another account, whose address is not in the Map
C32_Witness ==
    /\ call = "getEmails"
    /\ pc = "returned"
    /\ \E c \in AllTakenCommits :
          /\ c.author = "alice"
          /\ c.cauthor.email # c.ccommitter.email
          /\ <<c.cauthor.email, c.cauthor.name>> \in Pairs(newEmails)
          /\ <<c.ccommitter.email, c.ccommitter.name>> \in Pairs(newEmails)
    /\ \E c \in AllTakenCommits :
          /\ c.author = "bob"
          /\ c.cauthor.ok
          /\ ~MapHas(newEmails, c.cauthor.email)

(* --------------------------------- C33 --------------------------------- *)

\* the profile lookup has answered
ProfileAnswered == at \notin {"idle", "start", "profile"}

\* C33: when the profile lookup returns nothing, an error, or a Not Found
\* message, runGithubRecon returns null at once: the writer is never
\* called, and the rate-limit and the profile request are the only calls of
\* the run (no organization, key, repository or commit request).
C33_NotFoundAborts ==
    (/\ ProfileAnswered
     /\ \/ userInfo = Null
        \/ userInfo.error
        \/ userInfo.message = "Not Found") =>
        /\ at = "notFound"
        /\ saved = <<>>
        /\ apiCalls = <<ApiCall("getRateLimit", 0, 0),
                        ApiCall("getUserProfile", 0, 0)>>
        /\ started = <<>>
        /\ emailsToName = <<>>

\* the lookup answered with a Not Found message without an error flag
C33_Witness ==
    /\ at = "notFound"
    /\ userInfo = Obj("Not Found", FALSE)
    /\ Len(apiCalls) = 2

(* --------------------------------- C34 --------------------------------- *)

\* C34: against an upstream of finitely many keys that answers every
\* request with a full page, never a short page or an error, getRepositories
\* and getEmails return after finitely many requests: a full page either
\* brings PageSize keys not seen before or stops the walk at a repeated key,
\* so the requests are at most the full pages the keys fill, plus one.
C34_CollectorsTerminate ==
    /\ <>(pc = "returned")
    /\ [](Len(fetched) <= KeyUniverse \div PageSize + 1)
    /\ [](Len(fetched) > Cardinality(repositoriesSeen \cup seenCommits) \div PageSize
            => pc = "returned")

\* a first full page of keys not seen before, and a second full page, which
\* stopped the walk at its first key
C34_Witness ==
    /\ pc = "returned"
    /\ Len(fetched) = 2
    /\ \A n \in 1..2 : served[n].t = "arr" /\ Len(served[n].items) = PageSize
    /\ Cardinality(repositoriesSeen \cup seenCommits) = KeyUniverse


(* --------------------------------- C35 --------------------------------- *)

\* C35 as stated: when the strategy says the scan cannot complete, the
\* limit_repos value s is a non-negative integer and the estimate of s
\* repositories under the same options fits the remaining quota.  It does not
\* hold: for a remaining quota below the safety margin of 10 the value
\* floor((remaining - 10) / callsPerRepo) is negative.
C35_SafeCountFits ==
    scFn = "generateScanStrategy" /\ scDone /\ ~scOut.canComplete
            /\ scArgs.rateLimitRemaining >= 0 =>
        /\ scOut.recommendations[1].type = "limit_repos"
        /\ scOut.recommendations[1].value >= 0
        /\ estimateApiCalls(scOut.recommendations[1].value, scArgs.options)
              <= scArgs.rateLimitRemaining


(* --------------------------------- C36 --------------------------------- *)

\* a Map as the set of its entries: what it holds, whatever the order of
\* insertion
Entries(m) == {m[j] : j \in 1..Len(m)}

SameMaps(x, y) ==
    /\ Entries(x.emailsToName) = Entries(y.emailsToName)
    /\ Entries(x.emailsToRepo) = Entries(y.emailsToRepo)
    /\ Entries(x.emailSources) = Entries(y.emailSources)

\* what a run reports of an aggregate, as sets
ReportedSets(agg) ==
    LET res == updateResultEmails(reconResult, agg.emailsToName,
                                  agg.emailsToRepo, agg.emailSources,
                                  smart \/ skipNoreply)
    IN  [emails |-> {res.leaked_emails[j] : j \in 1..Len(res.leaked_emails)},
         details |-> {res.email_details[j] : j \in 1..Len(res.email_details)}]

NoAggregate ==
    [emailsToName |-> <<>>, emailsToRepo |-> <<>>, emailSources |-> <<>>,
     newEmailsCount |-> 0]

\* the Map of one repository and then the Map of another, folded into agg
ScanTwo(agg, first, a, second, b) ==
    MergeEmails(MergeEmails(agg, first, 1, a), second, 1, b)

\* C36: the order of the repositories does not matter.  From the aggregate
\* the run has reached, and from the empty one, folding the Map getEmails
\* returned for the repository at idx and then another Map under any
\* repository name of the run gives the same three maps, as sets of entries,
\* and the same reported emails and details, as folding them in the other
\* order; a third fold keeps them the same; and mergeEmailMaps of two Maps
\* holds the same entries in either order.  Every order of a scan is reached
\* from another by exchanging neighbours.
C36_MergeOrderFree ==
    Merged =>
        \A start \in {NoAggregate, Aggregate(0)} :
            \A other \in {emailsToName, SubSeq(emailsToName, 2, Len(emailsToName))} :
                \A k \in 1..Len(repoNames) :
                    LET a == repoNames[idx]
                        b == repoNames[k]
                        ab == ScanTwo(start, newEmails, a, other, b)
                        ba == ScanTwo(start, other, b, newEmails, a)
                    IN  /\ SameMaps(ab, ba)
                        /\ ReportedSets(ab) = ReportedSets(ba)
                        /\ SameMaps(MergeEmails(ab, newEmails, 1, b),
                                    MergeEmails(ba, newEmails, 1, b))
                        /\ Entries(mergeEmailMaps(mergeEmailMaps(<<>>, newEmails),
                                                  other))
                              = Entries(mergeEmailMaps(mergeEmailMaps(<<>>, other),
                                                       newEmails))

\* the second of two different repositories returned a Map with an address
\* the first had given too, so that the address is of two repositories, and
\* the run holds two addresses or more
C36_Witness ==
    /\ Merged
    /\ idx = 2
    /\ repoNames[1] # repoNames[2]
    /\ Len(emailsToName) >= 2
    /\ \E j \in 1..Len(newEmails) :
          /\ MapHas(emailsToRepo, newEmails[j].key)
          /\ MapGet(emailsToRepo, newEmails[j].key) = {repoNames[1], repoNames[2]}
          /\ Cardinality(MapGet(emailsToName, newEmails[j].key)) >= 1
    /\ \E j \in 1..Len(emailsToName) :
          MapGet(emailsToRepo, emailsToName[j].key) = {repoNames[1]}


(* --------------------------------- C37 --------------------------------- *)

Channels == {"commit", "event", "readme"}

\* what a Map of Sets holds for a key: nothing when the key is absent
SetOf(m, key) == IF MapHas(m, key) THEN MapGet(m, key) ELSE {}

\* the channel through which the step taken at `at` merges addresses
ChannelAt ==
    CASE at \in {"loop", "scanning"} -> {"commit"}
      [] at = "events" -> {"event"}
      [] at = "readme" -> {"readme"}
      [] OTHER -> {}

ProvenanceOf(res) ==
    \A j \in 1..Len(res.email_details) :
        LET detail == res.email_details[j]
        IN  /\ detail.sources # {}
            /\ detail.sources \subseteq Channels
            /\ detail.repositories # {} <=> "commit" \in detail.sources
            /\ "readme" \in detail.sources <=> "README" \in detail.names
            /\ detail.sources \subseteq SetOf(emailSources, detail.email)

\* a step records the channel of every address it merges, records no other
\* channel, and drops none
ProvenanceStep ==
    \A key \in MapKeys(emailsToName') :
        /\ SetOf(emailSources, key) \subseteq SetOf(emailSources', key)
        /\ SetOf(emailSources', key) \ SetOf(emailSources, key)
              \subseteq ChannelAt
        /\ SetOf(emailsToName', key) # SetOf(emailsToName, key) =>
              ChannelAt # {} /\ ChannelAt \subseteq SetOf(emailSources', key)
        /\ SetOf(emailsToRepo', key) # SetOf(emailsToRepo, key) =>
              "commit" \in SetOf(emailSources', key)

\* C37: provenance is never lost.  In every snapshot and in the result each
\* entry of email_details has a non-empty sources set, of the channels
\* commit, event and readme only, and has repositories exactly when its
\* sources hold commit; the snapshots of the loop hold commit alone; every
\* address of the maps has its sources; and every step adds to the sources
\* of an address the channel it merges it through, that channel only, and
\* removes none.
C37_ProvenanceKept ==
    /\ [](/\ ProvenanceOf(reconResult)
          /\ \A k \in 1..Len(saved) :
                /\ ProvenanceOf(saved[k])
                /\ \A j \in 1..Len(saved[k].email_details) :
                      saved[k].email_details[j].sources = {"commit"}
          /\ \A key \in MapKeys(emailsToName) :
                /\ SetOf(emailSources, key) # {}
                /\ MapHas(emailsToRepo, key) <=> "commit" \in SetOf(emailSources, key))
    /\ [][ProvenanceStep]_vars

\* a deep run has completed with an address that came through the three
\* channels and an address that came through no commit
C37_Witness ==
    /\ at = "done"
    /\ deep
    /\ \E j \in 1..Len(reconResult.email_details) :
          reconResult.email_details[j].sources = Channels
    /\ \E j \in 1..Len(reconResult.email_details) :
          /\ reconResult.email_details[j].sources = {"event", "readme"}
          /\ reconResult.email_details[j].repositories = {}


(* --------------------------------- C38 --------------------------------- *)

FiveMinutes == 300000

\* the calls before call p that decide what a read of the key of call p
\* finds: the writes of that key and the clearings of the cache
Deciding(p) ==
    {q \in 1..(p - 1) :
        \/ cacheLog[q].fn = "clearCache"
        \/ cacheLog[q].fn = "setCache" /\ cacheLog[q].key = cacheLog[p].key}

Latest(calls) == CHOOSE q \in calls : \A other \in calls : other <= q

\* what the read at call p is to return: the data of the latest write of
\* its key, when no clearing followed and no more than five minutes passed
ExpectedRead(p) ==
    IF Deciding(p) = {}
    THEN Null
    ELSE LET q == Latest(Deciding(p))
         IN  IF cacheLog[q].fn = "setCache"
                    /\ cacheLog[p].at <= cacheLog[q].at + FiveMinutes
             THEN cacheLog[q].data
             ELSE Null

Held(m, k) == IF MapHas(m, k) THEN <<MapGet(m, k)>> ELSE <<>>

\* C38: the cache expires.  A getCached(k) returns the data of the latest
\* setCache(k, d) when it is called no later than five minutes after it and
\* no clearCache came between, and null otherwise: a later setCache
\* replaces the data and restarts the five minutes; a read that returned
\* null leaves no entry of its key; clearCache leaves no entry; and a
\* getCached or setCache of a key leaves the entry of every other key as it
\* is.
C38_CacheExpires ==
    /\ [](/\ \A p \in 1..Len(cacheLog) :
                cacheLog[p].fn = "getCached" => cacheLog[p].out = ExpectedRead(p)
          /\ cacheLog # <<>> =>
                LET last == cacheLog[Len(cacheLog)]
                IN  /\ last.fn = "getCached" /\ last.out = Null =>
                          ~MapHas(cache, last.key)
                    /\ last.fn = "setCache" =>
                          /\ MapGet(cache, last.key).data = last.data
                          /\ MapGet(cache, last.key).expiry = last.at + FiveMinutes
                    /\ last.fn = "clearCache" => cache = <<>>)
    /\ [][\A k \in CacheKeys :
              Held(cache', k) # Held(cache, k) =>
                  /\ Len(cacheLog') = Len(cacheLog) + 1
                  /\ cacheLog'[Len(cacheLog')].fn \in {"clearCache", "setCache",
                                                       "getCached"}
                  /\ cacheLog'[Len(cacheLog')].fn # "clearCache" =>
                        cacheLog'[Len(cacheLog')].key = k]_vars

\* a key was written at 0 and read five minutes later, which returned the
\* data, and one millisecond after that, which returned null and removed
\* the entry
C38_Witness ==
    /\ Len(cacheLog) = 3
    /\ cacheLog[1].fn = "setCache" /\ cacheLog[1].at = 0
    /\ cacheLog[2].fn = "getCached" /\ cacheLog[2].key = cacheLog[1].key
    /\ cacheLog[2].at = FiveMinutes /\ cacheLog[2].out = cacheLog[1].data
    /\ cacheLog[3].fn = "getCached" /\ cacheLog[3].key = cacheLog[1].key
    /\ cacheLog[3].at = FiveMinutes + 1 /\ cacheLog[3].out = Null
    /\ ~MapHas(cache, cacheLog[1].key)

=============================================================================
